---- MODULE Spec2Model ----
(***************************************************************************)
(* A model of the index query executor (core/src/idx/planner/executor.rs): *)
(* InnerQueryExecutor::new, add_iterator, and the QueryExecutor facade.    *)
(***************************************************************************)
EXTENDS Integers, Sequences, FiniteSets, TLC

(***************************************************************************)
(* Bounds of the model.                                                    *)
(***************************************************************************)
\* the longest list of (expression, IndexOption) pairs a plan carries
MaxOptions == 2
\* the number of add_iterator calls explored on one executor
MaxIterators == 1
\* the number of add_iterator calls explored beyond a pre-filled vector
MaxExtraAdds == 2
\* the rows of a scan, and the largest k of a kNN expression
MaxRows == 5
MaxK == 2
\* the records of an indexed table, the iterators held at a time, and the
\* largest batch asked for
MaxRecords == 3
MaxOpen == 2
MaxBatch == 2
\* the tokens of a statement text
MaxTokens == 3

(***************************************************************************)
(* Program constants.                                                      *)
(***************************************************************************)
\* pub(crate) type IteratorRef = u16
IteratorRefBits == 16

(***************************************************************************)
(* Option<T>, Result<T, Error> and HashMap<K, V>.                          *)
(***************************************************************************)
NoneV == <<>>
Some(x) == <<x>>
IsSome(o) == o # <<>>
Unwrap(o) == o[1]

Ok(v) == [tag |-> "Ok", val |-> v]
Err(kind, detail) == [tag |-> "Err", kind |-> kind, detail |-> detail]
IsOk(r) == r.tag = "Ok"
IsErr(r) == r.tag = "Err"

EmptyMap == [k \in {} |-> 0]
MapInsert(m, key, v) ==
    [k \in DOMAIN m \cup {key} |-> IF k = key THEN v ELSE m[k]]
MapGet(m, key) == IF key \in DOMAIN m THEN Some(m[key]) ELSE NoneV

VecGet_Wrapping(vec, i) ==
    IF vec = <<>> \/ i < 0 THEN NoneV ELSE Some(vec[(i % Len(vec)) + 1])
\* Vec::get(i) with a zero-based index
VecGet(vec, i) == IF i >= 0 /\ i < Len(vec) THEN Some(vec[i + 1]) ELSE NoneV

(***************************************************************************)
(* The values the inputs are drawn from.                                   *)
(***************************************************************************)
Exprs == {"e1", "e2"}
MatchRefs == {1, 2}
Table == "person"

\* DefineIndexStatement: name, what (the table), the index kind, and whether
\* a Search index is defined with BM25 scoring
IndexDef(name, what, index, bm25) ==
    [name |-> name, what |-> what, index |-> index, bm25 |-> bm25]
Definitions ==
    << IndexDef("ft_body", "person", "Search", TRUE),
       IndexDef("ft_note", "book", "Search", FALSE),
       IndexDef("mt_pt", "person", "MTree", FALSE),
       IndexDef("by_name", "person", "Idx", FALSE),
       IndexDef("by_id", "person", "Uniq", FALSE) >>
\* every IndexRef into Definitions, and one past its end
IndexRefs == 0..Len(Definitions)

\* IndexOperator
Equality(v) == [kind |-> "Equality", value |-> v]
Union(vs) == [kind |-> "Union", values |-> vs]
Join(ios) == [kind |-> "Join", ios |-> ios]
Matches(qs, mr) == [kind |-> "Matches", qs |-> qs, mr |-> mr]
Knn(vec, k) == [kind |-> "Knn", vec |-> vec, k |-> k]

\* IndexOption: (IndexRef, IdiomPosition, IndexOperator)
IndexOption(ir, id_pos, op) == [ix_ref |-> ir, id_pos |-> id_pos, op |-> op]

\* RangeValue: (bound value, inclusive?)
RangeValue(v, inclusive) == [value |-> v, inclusive |-> inclusive]

\* a query string is the sequence of its words
QueryStrings == { <<>>, <<"quick">>, <<"quick", "brown">> }
Vector == <<0, 0, 0>>

(***************************************************************************)
(* Storage, as the build reads it: the postings of a full-text index (the  *)
(* words of its dictionary and the DocIds of each), the DocId of each      *)
(* indexed record, and the DocIds of an M-Tree in ascending distance to    *)
(* Vector.                                                                 *)
(***************************************************************************)
Things == {"person:1", "person:2"}
Texts == { <<"quick">>, <<"quick", "brown">> }

Stores ==
    { [postings |-> [w \in {"quick"} |-> {1, 2}],
       doc_ids |-> [t \in Things |-> IF t = "person:1" THEN 1 ELSE 2],
       mtree |-> <<3, 1, 2>>],
      [postings |-> [w \in {"quick", "brown"} |->
                        IF w = "quick" THEN {1, 2} ELSE {1}],
       doc_ids |-> [t \in {"person:1"} |-> 1],
       mtree |-> <<2>>],
      [postings |-> [w \in {"quick", "brown"} |->
                        IF w = "quick" THEN {1, 2} ELSE {2}],
       doc_ids |-> [t \in Things |-> IF t = "person:1" THEN 1 ELSE 2],
       mtree |-> <<1>>] }

VARIABLES
    store,        \* the storage snapshot of the read transaction
    phase,        \* "init", "built" (InnerQueryExecutor), "exec" (QueryExecutor), "failed"
    plan,         \* the arguments of InnerQueryExecutor::new: [im, knns]
    new_result,   \* what InnerQueryExecutor::new returned
    exec,         \* the fields of InnerQueryExecutor
    ft_news,      \* the IndexRef of every FtIndex::new that returned an index
    mt_news,      \* the IndexRef of every MTreeIndex::new that returned an index
    knn_searches, \* the number of MTreeIndex::knn_search calls
    it_refs,      \* the IteratorRefs the add_iterator calls returned, in call order
    ret,          \* the last facade call and what it returned
    knn_log,      \* the KnnPriorityList::add calls made, in order: [exp, dist, thg]
    tasks,        \* per row task inside knn(): where it is and the distance it computed
    iter_stage,   \* the IterationStage the plan driver hands to the row tasks
    txn_log,      \* the Transaction lock and storage events of the last operation
    its           \* the ThingIterators new_iterator handed out, each with its cursor

vars == << store, phase, plan, new_result, exec, ft_news, mt_news,
           knn_searches, it_refs, ret, knn_log, tasks, iter_stage, txn_log, its >>

\* no row task has entered knn()
NoTasks == EmptyMap
\* no operation has touched the Transaction
NoTxnLog == [op |-> "", events |-> <<>>]

(***************************************************************************)
(* Collaborators of the build.                                             *)
(***************************************************************************)
\* FtIndex::extract_querying_terms: the terms list (None for a word unknown
\* to the dictionary) and the terms set
ExtractQueryingTerms(st, qs) ==
    LET list == [i \in 1..Len(qs) |->
                    IF qs[i] \in DOMAIN st.postings THEN Some(qs[i]) ELSE NoneV]
    IN  [list |-> list,
         set |-> [terms |-> {qs[i] : i \in {j \in 1..Len(qs) : IsSome(list[j])}},
                  has_unknown_terms |-> \E i \in 1..Len(qs) : ~IsSome(list[i])]]

\* FtIndex::get_terms_docs: per term of the list, the term and its postings
GetTermsDocs(st, terms_list) ==
    [i \in 1..Len(terms_list) |->
        IF IsSome(terms_list[i])
        THEN Some([term |-> Unwrap(terms_list[i]),
                   docs |-> st.postings[Unwrap(terms_list[i])]])
        ELSE NoneV]

Min(a, b) == IF a < b THEN a ELSE b

\* MTreeIndex::knn_search: the k nearest DocIds, in ascending distance
KnnSearch(st, vec, k) == SubSeq(st.mtree, 1, Min(k, Len(st.mtree)))

\* KnnPriorityList::new(k)
KnnPriorityListNew(k) == [k |-> k, items |-> <<>>]

(***************************************************************************)
(* InnerQueryExecutor::new.  The locals of the call are the fields of a    *)
(* record b; b.calls counts the fallible collaborator calls made so far    *)
(* and the call numbered flt (if any) returns an error.                    *)
(***************************************************************************)
NoErr == [tag |-> "Ok", val |-> NoneV]

InitBuild ==
    [ft_map |-> EmptyMap, mt_map |-> EmptyMap, mr_entries |-> EmptyMap,
     exp_entries |-> EmptyMap, mt_entries |-> EmptyMap,
     ft_news |-> <<>>, mt_news |-> <<>>, knn_searches |-> 0,
     calls |-> 0, err |-> NoErr, events |-> <<>>]

\* what the call does with the Transaction, in order: "lock" (txn.lock().await
\* returned the guard), "unlock" (the guard is dropped), "storage" (a call that
\* is handed the locked transaction), "rwlock" (a reader-writer lock is awaited)
Ev(b, e) == [b EXCEPT !.events = @ \o e]

\* one fallible call: b with the call counted, failed with kind when it is flt
Call(b, flt, kind) ==
    IF b.calls + 1 = flt
    THEN [b EXCEPT !.calls = @ + 1, !.err = Err(kind, NoneV)]
    ELSE [b EXCEPT !.calls = @ + 1]

Failed(b) == IsErr(b.err)

\* FtEntry::new: [b, entry]; entry is None unless the operator is Matches
FtEntryNew(st, b, flt, ft, ix_def, io) ==
    IF io.op.kind = "Matches"
    THEN LET b1 == Call(b, flt, "AnalyzerError")
             t == ExtractQueryingTerms(st, io.op.qs)
             b2 == IF Failed(b1) THEN b1
                   ELSE Ev(Call(Ev(b1, <<"lock">>), flt, "StorageError"), <<"storage">>)
             terms_docs == GetTermsDocs(st, t.list)
             b3 == IF Failed(b2) THEN b2 ELSE Call(b2, flt, "StorageError")
             b4 == IF Failed(b1) THEN b1 ELSE Ev(b3, <<"unlock">>)
         IN  [b |-> b4,
              entry |-> IF Failed(b4) THEN NoneV
                        ELSE Some([index_option |-> io,
                                   ft |-> ft,
                                   query_terms_set |-> t.set,
                                   query_terms_list |-> t.list,
                                   terms_docs |-> terms_docs,
                                   scorer |-> IF ix_def.bm25
                                              THEN Some(terms_docs)
                                              ELSE NoneV])]
    ELSE [b |-> b, entry |-> NoneV]

\* line 125: mr_entries.insert(*mr, e).is_some()
MrDuplicated_Never(mr_entries, mr) == FALSE
MrDuplicated(mr_entries, mr) == mr \in DOMAIN mr_entries

\* line 131: exp_entries.insert(exp, e)
ExpEntriesInsert_FirstOnly(exp_entries, exp, e) ==
    IF exp_entries = EmptyMap THEN MapInsert(exp_entries, exp, e) ELSE exp_entries
ExpEntriesInsert(exp_entries, exp, e) == MapInsert(exp_entries, exp, e)

\* lines 123-132: the entry is registered under its MatchRef and its expression
RegisterFtEntry(b, exp, e) ==
    LET op == e.index_option.op IN
    IF op.kind = "Matches" /\ IsSome(op.mr)
    THEN IF MrDuplicated(b.mr_entries, Unwrap(op.mr))
         THEN [b EXCEPT !.mr_entries = MapInsert(@, Unwrap(op.mr), e),
                        !.err = Err("DuplicatedMatchRef", op.mr)]
         ELSE [b EXCEPT !.mr_entries = MapInsert(@, Unwrap(op.mr), e),
                        !.exp_entries = ExpEntriesInsert(@, exp, e)]
    ELSE [b EXCEPT !.exp_entries = ExpEntriesInsert(@, exp, e)]

\* FtIndex::new: the new instance is named by its place in ft_news
FtIndexNew(b, flt, ix_ref) ==
    LET b1 == Call(b, flt, "StorageError") IN
    IF Failed(b1) THEN b1 ELSE [b1 EXCEPT !.ft_news = Append(@, ix_ref)]

\* line 102: ft_map.get(&ix_ref) finds the index already built
FtMapHas_Never(ft_map, ix_ref) == FALSE
FtMapHas(ft_map, ix_ref) == ix_ref \in DOMAIN ft_map

\* line 121: ft_map.insert(ix_ref, ft)
FtMapInsert_Dropped(ft_map, ix_ref, ft) == ft_map
FtMapInsert(ft_map, ix_ref, ft) == MapInsert(ft_map, ix_ref, ft)

\* lines 100-133: Index::Search
BuildSearch(st, b, flt, ix_def, exp, io) ==
    LET ix_ref == io.ix_ref
        got == FtMapHas(b.ft_map, ix_ref)
        b1 == IF got THEN b ELSE FtIndexNew(b, flt, ix_ref)
        ft == IF got THEN b.ft_map[ix_ref] ELSE Len(b1.ft_news)
        r == FtEntryNew(st, b1, flt, ft, ix_def, io)
        b2 == IF got THEN r.b ELSE [r.b EXCEPT !.ft_map = FtMapInsert(@, ix_ref, ft)]
    IN  IF Failed(b1) THEN b1
        ELSE IF Failed(r.b) THEN r.b
        ELSE IF IsSome(r.entry) THEN RegisterFtEntry(b2, exp, Unwrap(r.entry))
        ELSE b2

\* MTreeIndex::new
MTreeIndexNew(b, flt, ix_ref) ==
    LET b1 == Ev(Call(b, flt, "StorageError"), <<"storage">>) IN
    IF Failed(b1) THEN b1 ELSE [b1 EXCEPT !.mt_news = Append(@, ix_ref)]

\* MtEntry::new: [b, entry]
MtEntryNew(st, b, flt, mt, a, k) ==
    LET b1 == Ev(Call(b, flt, "StorageError"), <<"storage">>) IN
    [b |-> IF Failed(b1) THEN b1 ELSE [b1 EXCEPT !.knn_searches = @ + 1],
     entry |-> [doc_ids |-> mt, res |-> KnnSearch(st, a, k)]]

\* lines 134-155: Index::MTree
BuildMTree(st, b, flt, exp, io) ==
    IF io.op.kind = "Knn"
    THEN LET ix_ref == io.ix_ref
             got == ix_ref \in DOMAIN b.mt_map
             b0 == Ev(b, <<"lock">>)
             b1 == IF got THEN b0 ELSE MTreeIndexNew(b0, flt, ix_ref)
             mt == IF got THEN b.mt_map[ix_ref] ELSE Len(b1.mt_news)
             r == MtEntryNew(st, b1, flt, mt, io.op.vec, io.op.k)
             b2 == IF got THEN r.b ELSE [r.b EXCEPT !.mt_map = MapInsert(@, ix_ref, mt)]
         IN  Ev(IF Failed(b1) THEN b1
                ELSE IF Failed(r.b) THEN r.b
                ELSE [b2 EXCEPT !.mt_entries = MapInsert(@, exp, r.entry)],
                <<"unlock">>)
    ELSE b

\* lines 96-159: one turn of the loop over im.options
BuildOption(st, im, b, flt, o) ==
    LET exp == o[1]
        io == o[2]
        d == VecGet(im.definitions, io.ix_ref)
    IN  IF ~IsSome(d) THEN b
        ELSE IF Unwrap(d).index = "Search" THEN BuildSearch(st, b, flt, Unwrap(d), exp, io)
        ELSE IF Unwrap(d).index = "MTree" THEN BuildMTree(st, b, flt, exp, io)
        ELSE b

RECURSIVE BuildLoop(_, _, _, _, _)
BuildLoop(st, im, b, flt, i) ==
    IF i > Len(im.options) \/ Failed(b) THEN b
    ELSE BuildLoop(st, im, BuildOption(st, im, b, flt, im.options[i]), flt, i + 1)

\* lines 161-163: a KnnPriorityList per kNN expression
BuildKnnEntries(knns) ==
    [exp \in DOMAIN knns |->
        [p |-> KnnPriorityListNew(knns[exp].k), id |-> knns[exp].id,
         val |-> knns[exp].val, dist |-> knns[exp].dist]]

NoExec == [table |-> "", ft_map |-> EmptyMap, mr_entries |-> EmptyMap,
           exp_entries |-> EmptyMap, it_entries |-> <<>>,
           index_definitions |-> <<>>, mt_entries |-> EmptyMap,
           knn_entries |-> EmptyMap]

\* InnerQueryExecutor::new(ctx, opt, txn, table, im, knns)
New(table, im, knns, flt) ==
    /\ phase = "init"
    /\ LET b == BuildLoop(store, im, InitBuild, flt, 1) IN
       /\ plan' = [im |-> im, knns |-> knns]
       /\ ft_news' = b.ft_news
       /\ mt_news' = b.mt_news
       /\ knn_searches' = b.knn_searches
       /\ txn_log' = [op |-> "new", events |-> b.events]
       /\ IF Failed(b)
          THEN /\ phase' = "failed"
               /\ new_result' = b.err
               /\ exec' = NoExec
          ELSE /\ phase' = "built"
               /\ new_result' = Ok(NoneV)
               /\ exec' = [table |-> table,
                           ft_map |-> b.ft_map,
                           mr_entries |-> b.mr_entries,
                           exp_entries |-> b.exp_entries,
                           it_entries |-> <<>>,
                           index_definitions |-> im.definitions,
                           mt_entries |-> b.mt_entries,
                           knn_entries |-> BuildKnnEntries(knns)]
    /\ UNCHANGED << store, it_refs, ret,
                    knn_log, tasks, iter_stage, its >>

\* impl From<InnerQueryExecutor> for QueryExecutor
From ==
    /\ phase = "built"
    /\ phase' = "exec"
    /\ UNCHANGED << store, plan, new_result, exec, ft_news, mt_news,
                    knn_searches, it_refs, ret,
                    knn_log, tasks, iter_stage, txn_log, its >>

(***************************************************************************)
(* InnerQueryExecutor::add_iterator.                                       *)
(***************************************************************************)
\* IteratorEntry
Single(exp, io) == [tag |-> "Single", exp |-> exp, io |-> io]
RangeEntry(exps, ir, from, to) ==
    [tag |-> "Range", exps |-> exps, ir |-> ir, from |-> from, to |-> to]

RECURSIVE Pow2(_)
Pow2(n) == IF n = 0 THEN 1 ELSE 2 * Pow2(n - 1)

\* `ir as IteratorRef`: the cast of a usize to u16 keeps the low 16 bits
IteratorRefOf(n) == n % Pow2(IteratorRefBits)

AddIterator(it_entry) ==
    /\ phase = "built"
    /\ LET ir == Len(exec.it_entries) IN
       /\ exec' = [exec EXCEPT !.it_entries = Append(@, it_entry)]
       /\ it_refs' = Append(it_refs, IteratorRefOf(ir))
    /\ UNCHANGED << store, phase, plan, new_result, ft_news, mt_news,
                    knn_searches, ret,
                    knn_log, tasks, iter_stage, txn_log, its >>

(***************************************************************************)
(* QueryExecutor::new_iterator.  A result is [res, calls]: calls counts    *)
(* the MatchesThingIterator::new calls made so far, and the call numbered  *)
(* flt (if any) returns an error.                                          *)
(***************************************************************************)
\* ThingIterator, each variant with the arguments of its constructor
IndexIt_OtherIndex(variant, ix, arg) ==
    [variant |-> variant, what |-> ix.what, name |-> "by_name", arg |-> arg]
IndexIt(variant, ix, arg) ==
    [variant |-> variant, what |-> ix.what, name |-> ix.name, arg |-> arg]
RangeIt(variant, ix, from, to) ==
    [variant |-> variant, what |-> ix.what, name |-> ix.name,
     from |-> from, to |-> to]
MatchesIt(fti, terms_docs) ==
    [variant |-> "Matches", fti |-> fti, terms_docs |-> terms_docs]
KnnIt(doc_ids, res) == [variant |-> "Knn", doc_ids |-> doc_ids, res |-> res]

\* fn get_index_def
GetIndexDef(ex, ir) == VecGet(ex.index_definitions, ir)

NewRangeIterator_SwappedBounds(ex, ir, from, to) ==
    LET d == GetIndexDef(ex, ir) IN
    IF IsSome(d) /\ Unwrap(d).index = "Idx"
    THEN Some(RangeIt("IndexRange", Unwrap(d), to, from))
    ELSE IF IsSome(d) /\ Unwrap(d).index = "Uniq"
    THEN Some(RangeIt("UniqueRange", Unwrap(d), to, from))
    ELSE NoneV

\* fn new_range_iterator
NewRangeIterator(ex, ir, from, to) ==
    LET d == GetIndexDef(ex, ir) IN
    IF IsSome(d) /\ Unwrap(d).index = "Idx"
    THEN Some(RangeIt("IndexRange", Unwrap(d), from, to))
    ELSE IF IsSome(d) /\ Unwrap(d).index = "Uniq"
    THEN Some(RangeIt("UniqueRange", Unwrap(d), from, to))
    ELSE NoneV

RECURSIVE Reverse(_)
Reverse(q) == IF q = <<>> THEN <<>> ELSE Append(Reverse(Tail(q)), Head(q))

\* DocIdsIterator::new(doc_ids, res)
DocIdsIteratorNew_Reversed(doc_ids, res) == KnnIt(doc_ids, Reverse(res))
DocIdsIteratorNew(doc_ids, res) == KnnIt(doc_ids, res)

\* fn new_mtree_index_knn_iterator
NewMtreeIndexKnnIterator(ex, it_ref) ==
    LET e == VecGet(ex.it_entries, it_ref) IN
    IF IsSome(e) /\ Unwrap(e).tag = "Single"
       /\ Unwrap(e).exp \in DOMAIN ex.mt_entries
    THEN LET mte == ex.mt_entries[Unwrap(e).exp] IN
         Some(DocIdsIteratorNew(mte.doc_ids, mte.res))
    ELSE NoneV

\* line 382: if let Matches(_, _) = io.op()
IsMatchesOp_Any(op) == TRUE
IsMatchesOp(op) == op.kind = "Matches"

\* async fn new_search_index_iterator
NewSearchIndexIterator(ex, it_ref, io, c, flt) ==
    LET e == VecGet(ex.it_entries, it_ref) IN
    IF /\ IsSome(e) /\ Unwrap(e).tag = "Single"
       /\ IsMatchesOp(io.op)
       /\ io.ix_ref \in DOMAIN ex.ft_map
       /\ Unwrap(e).exp \in DOMAIN ex.exp_entries
    THEN [res |-> IF c + 1 = flt THEN Err("StorageError", NoneV)
                  ELSE Ok(Some(MatchesIt(ex.ft_map[io.ix_ref],
                                         ex.exp_entries[Unwrap(e).exp].terms_docs))),
          calls |-> c + 1]
    ELSE [res |-> Ok(NoneV), calls |-> c]

RECURSIVE NewSingleIterator(_, _, _, _, _)
RECURSIVE BuildIterators(_, _, _, _, _, _, _)

NewIndexIterator_ReversedUnion(ex, it_ref, ix, io, c, flt) ==
    IF io.op.kind = "Equality"
    THEN [res |-> Ok(Some(IndexIt("IndexEqual", ix, io.op.value))), calls |-> c]
    ELSE IF io.op.kind = "Union"
    THEN [res |-> Ok(Some(IndexIt("IndexUnion", ix, Reverse(io.op.values)))), calls |-> c]
    ELSE IF io.op.kind = "Join"
    THEN LET r == BuildIterators(ex, it_ref, io.op.ios, 1, <<>>, c, flt) IN
         IF IsErr(r.res) THEN r
         ELSE [res |-> Ok(Some(IndexIt("IndexJoin", ix, r.res.val))),
               calls |-> r.calls]
    ELSE [res |-> Ok(NoneV), calls |-> c]

\* async fn new_index_iterator
NewIndexIterator(ex, it_ref, ix, io, c, flt) ==
    IF io.op.kind = "Equality"
    THEN [res |-> Ok(Some(IndexIt("IndexEqual", ix, io.op.value))), calls |-> c]
    ELSE IF io.op.kind = "Union"
    THEN [res |-> Ok(Some(IndexIt("IndexUnion", ix, io.op.values))), calls |-> c]
    ELSE IF io.op.kind = "Join"
    THEN LET r == BuildIterators(ex, it_ref, io.op.ios, 1, <<>>, c, flt) IN
         IF IsErr(r.res) THEN r
         ELSE [res |-> Ok(Some(IndexIt("IndexJoin", ix, r.res.val))),
               calls |-> r.calls]
    ELSE [res |-> Ok(NoneV), calls |-> c]

NewUniqueIndexIterator_AsIndex(ex, it_ref, ix, io, c, flt) ==
    NewIndexIterator(ex, it_ref, ix, io, c, flt)

\* async fn new_unique_index_iterator
NewUniqueIndexIterator(ex, it_ref, ix, io, c, flt) ==
    IF io.op.kind = "Equality"
    THEN [res |-> Ok(Some(IndexIt("UniqueEqual", ix, io.op.value))), calls |-> c]
    ELSE IF io.op.kind = "Union"
    THEN [res |-> Ok(Some(IndexIt("UniqueUnion", ix, io.op.values))), calls |-> c]
    ELSE IF io.op.kind = "Join"
    THEN LET r == BuildIterators(ex, it_ref, io.op.ios, 1, <<>>, c, flt) IN
         IF IsErr(r.res) THEN r
         ELSE [res |-> Ok(Some(IndexIt("UniqueJoin", ix, r.res.val))),
               calls |-> r.calls]
    ELSE [res |-> Ok(NoneV), calls |-> c]

\* async fn new_single_iterator
NewSingleIterator(ex, it_ref, io, c, flt) ==
    LET d == GetIndexDef(ex, io.ix_ref) IN
    IF ~IsSome(d) THEN [res |-> Ok(NoneV), calls |-> c]
    ELSE IF Unwrap(d).index = "Idx"
    THEN NewIndexIterator(ex, it_ref, Unwrap(d), io, c, flt)
    ELSE IF Unwrap(d).index = "Uniq"
    THEN NewUniqueIndexIterator(ex, it_ref, Unwrap(d), io, c, flt)
    ELSE IF Unwrap(d).index = "Search"
    THEN NewSearchIndexIterator(ex, it_ref, io, c, flt)
    ELSE [res |-> Ok(NewMtreeIndexKnnIterator(ex, it_ref)), calls |-> c]

BuildIterators_LastFirst(ex, it_ref, ios, i, acc, c, flt) ==
    IF i > Len(ios) THEN [res |-> Ok(acc), calls |-> c]
    ELSE LET r == NewSingleIterator(ex, it_ref, ios[i], c, flt) IN
         IF IsErr(r.res) THEN r
         ELSE BuildIterators(ex, it_ref, ios, i + 1,
                             IF IsSome(r.res.val)
                             THEN <<Unwrap(r.res.val)>> \o acc ELSE acc,
                             r.calls, flt)

\* async fn build_iterators: the sub-iterators of ios[i..], after acc
BuildIterators(ex, it_ref, ios, i, acc, c, flt) ==
    IF i > Len(ios) THEN [res |-> Ok(acc), calls |-> c]
    ELSE LET r == NewSingleIterator(ex, it_ref, ios[i], c, flt) IN
         IF IsErr(r.res) THEN r
         ELSE BuildIterators(ex, it_ref, ios, i + 1,
                             IF IsSome(r.res.val)
                             THEN Append(acc, Unwrap(r.res.val)) ELSE acc,
                             r.calls, flt)

\* what new_iterator(opt, it_ref) returns
NewIteratorResult(ex, it_ref, flt) ==
    LET e == VecGet(ex.it_entries, it_ref) IN
    IF ~IsSome(e) THEN Ok(NoneV)
    ELSE IF Unwrap(e).tag = "Single"
    THEN NewSingleIterator(ex, it_ref, Unwrap(e).io, 0, flt).res
    ELSE Ok(NewRangeIterator(ex, Unwrap(e).ir, Unwrap(e).from, Unwrap(e).to))

NoCall == [op |-> "none"]

\* QueryExecutor::new_iterator(opt, it_ref)
NewIterator(it_ref, flt) ==
    /\ phase = "exec"
    /\ ret' = [op |-> "new_iterator", it_ref |-> it_ref,
               val |-> NewIteratorResult(exec, it_ref, flt),
               knn_searches |-> knn_searches]
    /\ UNCHANGED << store, phase, plan, new_result, exec, ft_news, mt_news,
                    knn_searches, it_refs,
                    knn_log, tasks, iter_stage, txn_log, its >>

\* Thing: (table, id)
Thing(tb, id) == [tb |-> tb, id |-> id]

(***************************************************************************)
(* ThingIterator.  The keys of an index are (indexed value, record id),    *)
(* in storage order; an iterator is a cursor over them and next_batch      *)
(* pulls up to n items (Thing, optional DocId) from it.                    *)
(***************************************************************************)
Key(value, id) == [value |-> value, id |-> id]
\* the storage order of two keys
KeyLess(a, b) == a.value < b.value \/ (a.value = b.value /\ a.id < b.id)
\* the keys of a set in storage order
SortedKeys(S) ==
    [i \in 1..Cardinality(S) |->
        CHOOSE k \in S : Cardinality({j \in S : KeyLess(j, k)}) = i - 1]
\* the keys of the index named name
IndexKeys(st, name) ==
    IF name \in DOMAIN st.index THEN SortedKeys(st.index[name]) ELSE <<>>

Scan_IgnoresLimit(keys, beg, end, limit) ==
    SelectSeq(keys, LAMBDA k : ~KeyLess(k, beg) /\ KeyLess(k, end))
\* scan(key_range, limit): the first limit keys of [beg, end), in order
Scan(keys, beg, end, limit) ==
    LET in == SelectSeq(keys, LAMBDA k : ~KeyLess(k, beg) /\ KeyLess(k, end))
    IN  SubSeq(in, 1, Min(limit, Len(in)))
\* the key right after k
Successor(k) == Key(k.value, k.id + 1)
\* the key range of the prefix of one value
PrefixRange(v) == [beg |-> Key(v, 0), end |-> Key(v + 1, 0)]
\* a bound is turned into the successor or predecessor key by its inclusive bit
BoundsRange(from, to) ==
    [beg |-> IF from.inclusive THEN Key(from.value, 0) ELSE Key(from.value + 1, 0),
     end |-> IF to.inclusive THEN Key(to.value + 1, 0) ELSE Key(to.value, 0)]

\* an item of a batch
Item(thg, doc_id) == [thg |-> thg, doc_id |-> doc_id]
\* the item decoded from a key of an index on table what
KeyItem(what, k) == Item(Thing(what, k.id), NoneV)
\* DocIds::get_thing: the Thing of a DocId, if any
GetThing(st, doc_id) ==
    IF \E t \in DOMAIN st.doc_ids : st.doc_ids[t] = doc_id
    THEN Some(CHOOSE t \in DOMAIN st.doc_ids : st.doc_ids[t] = doc_id)
    ELSE NoneV

\* the DocIds of a set, ascending
RECURSIVE SortedDocs(_)
SortedDocs(S) ==
    IF S = {} THEN <<>>
    ELSE LET m == CHOOSE x \in S : \A y \in S : x <= y
         IN  <<m>> \o SortedDocs(S \ {m})
\* the DocIds a Matches iterator walks: per query term, its posting list
RECURSIVE MatchesHits(_, _)
MatchesHits(terms_docs, i) ==
    IF i > Len(terms_docs) THEN <<>>
    ELSE (IF IsSome(terms_docs[i]) THEN SortedDocs(Unwrap(terms_docs[i]).docs) ELSE <<>>)
         \o MatchesHits(terms_docs, i + 1)

\* the cursor of a new iterator, from what new_iterator constructed
RECURSIVE OpenCursor(_)
OpenCursor(it) ==
    IF it.variant \in {"IndexEqual", "UniqueEqual"}
    THEN [variant |-> it.variant, what |-> it.what, name |-> it.name,
          r |-> PrefixRange(it.arg)]
    ELSE IF it.variant \in {"IndexRange", "UniqueRange"}
    THEN [variant |-> it.variant, what |-> it.what, name |-> it.name,
          r |-> BoundsRange(it.from, it.to)]
    ELSE IF it.variant \in {"IndexUnion", "UniqueUnion"}
    THEN [variant |-> it.variant, what |-> it.what, name |-> it.name,
          values |-> it.arg, cur |-> NoneV]
    ELSE IF it.variant \in {"IndexJoin", "UniqueJoin"}
    THEN [variant |-> it.variant, what |-> it.what, name |-> it.name,
          queue |-> [i \in 1..Len(it.arg) |-> OpenCursor(it.arg[i])],
          pending |-> <<>>, cur |-> NoneV]
    ELSE IF it.variant = "Matches"
    THEN [variant |-> it.variant, res |-> MatchesHits(it.terms_docs, 1)]
    ELSE [variant |-> it.variant, res |-> it.res]

\* a scan of up to n keys of the range r of the index: the items and the
\* range left
ScanRange(st, what, name, r, n) ==
    LET ks == Scan(IndexKeys(st, name), r.beg, r.end, n) IN
    [batch |-> [i \in 1..Len(ks) |-> KeyItem(what, ks[i])],
     r |-> IF ks = <<>> THEN r ELSE [r EXCEPT !.beg = Successor(ks[Len(ks)])]]

\* up to n DocIds of res resolved to Things; a DocId without a Thing is skipped
RECURSIVE ResolveDocs(_, _, _, _)
ResolveDocs(st, res, n, acc) ==
    IF n = 0 \/ res = <<>> THEN [batch |-> acc, res |-> res]
    ELSE LET t == GetThing(st, Head(res)) IN
         IF IsSome(t)
         THEN ResolveDocs(st, Tail(res), n - 1, Append(acc, Item(Unwrap(t), Some(Head(res)))))
         ELSE ResolveDocs(st, Tail(res), n, acc)

\* the value a join probes its index with for an item of a sub-iterator
JoinValue(item) == item.thg.id

\* ThingIterator::next_batch(txn, n): [batch, c], the items and the cursor left
RECURSIVE NextBatch(_, _, _)
NextBatchAt(st, c, n) ==
    IF c.variant \in {"IndexEqual", "UniqueEqual", "IndexRange", "UniqueRange"}
    THEN LET s == ScanRange(st, c.what, c.name, c.r, n) IN
         [batch |-> s.batch, c |-> [c EXCEPT !.r = s.r]]
    ELSE IF c.variant \in {"IndexUnion", "UniqueUnion"}
    THEN IF IsSome(c.cur)
         THEN LET s == ScanRange(st, c.what, c.name, Unwrap(c.cur), n) IN
              IF s.batch # <<>>
              THEN [batch |-> s.batch, c |-> [c EXCEPT !.cur = Some(s.r)]]
              ELSE NextBatch(st, [c EXCEPT !.cur = NoneV], n)
         ELSE IF c.values # <<>>
         THEN NextBatch(st, [c EXCEPT !.cur = Some(PrefixRange(Head(c.values))),
                                      !.values = Tail(c.values)], n)
         ELSE [batch |-> <<>>, c |-> c]
    ELSE IF c.variant \in {"IndexJoin", "UniqueJoin"}
    THEN IF IsSome(c.cur)
         THEN LET s == ScanRange(st, c.what, c.name, Unwrap(c.cur), n) IN
              IF s.batch # <<>>
              THEN [batch |-> s.batch, c |-> [c EXCEPT !.cur = Some(s.r)]]
              ELSE NextBatch(st, [c EXCEPT !.cur = NoneV], n)
         ELSE IF c.pending # <<>>
         THEN NextBatch(st, [c EXCEPT !.cur = Some(PrefixRange(JoinValue(Head(c.pending)))),
                                      !.pending = Tail(c.pending)], n)
         ELSE IF c.queue # <<>>
         THEN LET inner == NextBatch(st, Head(c.queue), n) IN
              IF inner.batch = <<>>
              THEN NextBatch(st, [c EXCEPT !.queue = Tail(c.queue)], n)
              ELSE NextBatch(st, [c EXCEPT !.queue = <<inner.c>> \o Tail(c.queue),
                                           !.pending = inner.batch], n)
         ELSE [batch |-> <<>>, c |-> c]
    ELSE LET d == ResolveDocs(st, c.res, n, <<>>) IN
         [batch |-> d.batch, c |-> [c EXCEPT !.res = d.res]]
\* next_batch on the value of the cursor
NextBatch(st, c, n) == CHOOSE r \in {NextBatchAt(st, cv, n) : cv \in {c}} : TRUE

\* the caller keeps the iterator new_iterator returned to it, holding at
\* most max at a time
OpenIterator(max) ==
    /\ phase = "exec"
    /\ ret.op = "new_iterator"
    /\ IsOk(ret.val)
    /\ IsSome(ret.val.val)
    /\ Len(its) < max
    /\ its' = Append(its, [it_ref |-> ret.it_ref, it |-> Unwrap(ret.val.val),
                           c |-> OpenCursor(Unwrap(ret.val.val)),
                           out |-> <<>>, ended |-> FALSE])
    /\ UNCHANGED << store, phase, plan, new_result, exec, ft_news, mt_news,
                    knn_searches, it_refs, ret, knn_log, tasks, iter_stage, txn_log >>

\* the cursors after iterator i is advanced to c
AdvanceCursors_SharedBuffer(iters, i, c) ==
    [j \in 1..Len(iters) |->
        IF iters[j].it_ref = iters[i].it_ref THEN [iters[j] EXCEPT !.c = c] ELSE iters[j]]
AdvanceCursors(iters, i, c) == [iters EXCEPT ![i].c = c]

\* ThingIterator::next_batch(txn, n) on the iterator numbered i
NextBatchCall(i, n) ==
    /\ phase = "exec"
    /\ i \in 1..Len(its)
    /\ LET r == NextBatch(store, its[i].c, n) IN
       /\ its' = [AdvanceCursors(its, i, r.c) EXCEPT
                     ![i].out = @ \o r.batch,
                     ![i].ended = (r.batch = <<>>)]
       /\ ret' = [op |-> "next_batch", i |-> i, n |-> n, batch |-> r.batch]
    /\ UNCHANGED << store, phase, plan, new_result, exec, ft_news, mt_news,
                    knn_searches, it_refs, knn_log, tasks, iter_stage, txn_log >>

(***************************************************************************)
(* QueryExecutor::explain, is_iterator_expression, has_knn and is_table.   *)
(***************************************************************************)
\* Value::from(&RangeValue): the bound as a value
ValueFromRangeValue(rv) == [value |-> rv.value, inclusive |-> rv.inclusive]

\* the literal of an operator: its value, values, nested options, query or vector
OperatorLiteral(op) ==
    IF op.kind = "Equality" THEN op.value
    ELSE IF op.kind = "Union" THEN op.values
    ELSE IF op.kind = "Join" THEN op.ios
    ELSE IF op.kind = "Matches" THEN op.qs
    ELSE op.vec

\* IndexOption::explain: the index name, the operator kind and its literal
IndexOptionExplain(io, ix_def) ==
    LET e0 == EmptyMap
        e1 == IF IsSome(VecGet(ix_def, io.ix_ref))
              THEN MapInsert(e0, "index", Unwrap(VecGet(ix_def, io.ix_ref)).name)
              ELSE e0
        e2 == MapInsert(e1, "operator", io.op.kind)
    IN  MapInsert(e2, "value", OperatorLiteral(io.op))

IteratorEntryExplain_SwappedBounds(ie, ix_def) ==
    IF ie.tag = "Single" THEN IndexOptionExplain(ie.io, ix_def)
    ELSE LET e0 == EmptyMap
             e1 == IF IsSome(VecGet(ix_def, ie.ir))
                   THEN MapInsert(e0, "index", Unwrap(VecGet(ix_def, ie.ir)).name)
                   ELSE e0
             e2 == MapInsert(e1, "from", ValueFromRangeValue(ie.to))
         IN  MapInsert(e2, "to", ValueFromRangeValue(ie.from))

\* IteratorEntry::explain(&self, ix_def)
IteratorEntryExplain(ie, ix_def) ==
    IF ie.tag = "Single" THEN IndexOptionExplain(ie.io, ix_def)
    ELSE LET e0 == EmptyMap
             e1 == IF IsSome(VecGet(ix_def, ie.ir))
                   THEN MapInsert(e0, "index", Unwrap(VecGet(ix_def, ie.ir)).name)
                   ELSE e0
             e2 == MapInsert(e1, "from", ValueFromRangeValue(ie.from))
         IN  MapInsert(e2, "to", ValueFromRangeValue(ie.to))

\* what explain(itr) returns: an object, or Value::None
ExplainResult(ex, itr) ==
    LET ie == VecGet(ex.it_entries, itr) IN
    IF IsSome(ie)
    THEN [kind |-> "Object", fields |-> IteratorEntryExplain(Unwrap(ie), ex.index_definitions)]
    ELSE [kind |-> "None"]

\* QueryExecutor::explain
ExplainCall(itr) ==
    /\ phase = "exec"
    /\ ret' = [op |-> "explain", it_ref |-> itr, val |-> ExplainResult(exec, itr)]
    /\ UNCHANGED << store, phase, plan, new_result, exec, ft_news, mt_news,
                    knn_searches, it_refs,
                    knn_log, tasks, iter_stage, txn_log, its >>

IsIteratorExpressionCall_SingleOnly(ir, exp) ==
    /\ phase = "exec"
    /\ ret' = [op |-> "is_iterator_expression", it_ref |-> ir, exp |-> exp,
               val |-> LET ie == VecGet(exec.it_entries, ir) IN
                       /\ IsSome(ie)
                       /\ Unwrap(ie).tag = "Single"
                       /\ exp = Unwrap(ie).exp]
    /\ UNCHANGED << store, phase, plan, new_result, exec, ft_news, mt_news,
                    knn_searches, it_refs,
                    knn_log, tasks, iter_stage, txn_log, its >>

\* QueryExecutor::is_iterator_expression
IsIteratorExpressionCall(ir, exp) ==
    /\ phase = "exec"
    /\ ret' = [op |-> "is_iterator_expression", it_ref |-> ir, exp |-> exp,
               val |-> LET ie == VecGet(exec.it_entries, ir) IN
                       /\ IsSome(ie)
                       /\ IF Unwrap(ie).tag = "Single" THEN exp = Unwrap(ie).exp
                          ELSE exp \in Unwrap(ie).exps]
    /\ UNCHANGED << store, phase, plan, new_result, exec, ft_news, mt_news,
                    knn_searches, it_refs,
                    knn_log, tasks, iter_stage, txn_log, its >>

\* QueryExecutor::has_knn
HasKnnCall ==
    /\ phase = "exec"
    /\ ret' = [op |-> "has_knn", val |-> exec.knn_entries # EmptyMap]
    /\ UNCHANGED << store, phase, plan, new_result, exec, ft_news, mt_news,
                    knn_searches, it_refs,
                    knn_log, tasks, iter_stage, txn_log, its >>

\* QueryExecutor::is_table
IsTableCall(tb) ==
    /\ phase = "exec"
    /\ ret' = [op |-> "is_table", tb |-> tb, val |-> exec.table = tb]
    /\ UNCHANGED << store, phase, plan, new_result, exec, ft_news, mt_news,
                    knn_searches, it_refs,
                    knn_log, tasks, iter_stage, txn_log, its >>

(***************************************************************************)
(* QueryExecutor::matches.                                                 *)
(***************************************************************************)
\* DocIds::get_doc_id
GetDocId(st, thg) == MapGet(st.doc_ids, thg)

MatchesWithDocId_AnyTerm(st, thg, ft, flt) ==
    IF flt = 1 THEN Err("StorageError", NoneV)
    ELSE LET doc_id == GetDocId(st, thg) IN
         IF ~IsSome(doc_id) THEN Ok(FALSE)
         ELSE Ok(\E i \in 1..Len(ft.terms_docs) :
                    /\ IsSome(ft.terms_docs[i])
                    /\ Unwrap(doc_id) \in Unwrap(ft.terms_docs[i]).docs)

\* async fn matches_with_doc_id
MatchesWithDocId(st, thg, ft, flt) ==
    IF flt = 1 THEN Err("StorageError", NoneV)
    ELSE LET doc_id == GetDocId(st, thg)
             term_goals == Len(ft.terms_docs)
         IN  IF ~IsSome(doc_id) THEN Ok(FALSE)
             ELSE IF term_goals = 0 THEN Ok(FALSE)
             ELSE Ok(\A i \in 1..term_goals :
                        /\ IsSome(ft.terms_docs[i])
                        /\ Unwrap(doc_id) \in Unwrap(ft.terms_docs[i]).docs)

\* TermsSet::is_matchable
IsMatchable(terms_set) == ~terms_set.has_unknown_terms /\ terms_set.terms # {}

\* TermsSet::is_subset
IsSubset(terms_set, other) == terms_set.terms \subseteq other.terms

\* Analyzer::extract_indexing_terms: the terms set of a record value
ExtractIndexingTerms(st, v) ==
    [terms |-> {v[i] : i \in {j \in 1..Len(v) : v[j] \in DOMAIN st.postings}},
     has_unknown_terms |-> \E i \in 1..Len(v) : v[i] \notin DOMAIN st.postings]

MatchesWithValue_IndexedSide(st, ft, l, r, flt) ==
    IF ~IsMatchable(ft.query_terms_set) THEN Ok(FALSE)
    ELSE LET v == IF ft.index_option.id_pos = "Left" THEN l ELSE r IN
         IF flt = 1 THEN Err("AnalyzerError", NoneV)
         ELSE Ok(IsSubset(ft.query_terms_set, ExtractIndexingTerms(st, v)))

MatchesWithValue_Unchecked(st, ft, l, r, flt) ==
    LET v == IF ft.index_option.id_pos = "Left" THEN r ELSE l IN
    IF flt = 1 THEN Err("AnalyzerError", NoneV)
    ELSE Ok(IsSubset(ft.query_terms_set, ExtractIndexingTerms(st, v)))

\* async fn matches_with_value
MatchesWithValue(st, ft, l, r, flt) ==
    IF ~IsMatchable(ft.query_terms_set) THEN Ok(FALSE)
    ELSE LET v == IF ft.index_option.id_pos = "Left" THEN r ELSE l IN
         IF flt = 1 THEN Err("AnalyzerError", NoneV)
         ELSE Ok(IsSubset(ft.query_terms_set, ExtractIndexingTerms(st, v)))

MatchesResult_NoValuePath(st, ex, thg, exp, l, r, flt) ==
    IF exp \in DOMAIN ex.exp_entries
       /\ IsSome(GetIndexDef(ex, ex.exp_entries[exp].index_option.ix_ref))
       /\ ex.table = Unwrap(GetIndexDef(ex, ex.exp_entries[exp].index_option.ix_ref)).what
    THEN MatchesWithDocId(st, thg, ex.exp_entries[exp], flt)
    ELSE Err("NoIndexFoundForMatch", Some(exp))

\* what matches(ctx, opt, txn, thg, exp, l, r) returns
MatchesResult(st, ex, thg, exp, l, r, flt) ==
    IF exp \in DOMAIN ex.exp_entries
    THEN LET ft == ex.exp_entries[exp]
             ix_def == GetIndexDef(ex, ft.index_option.ix_ref)
         IN  IF IsSome(ix_def) /\ ex.table = Unwrap(ix_def).what
             THEN MatchesWithDocId(st, thg, ft, flt)
             ELSE MatchesWithValue(st, ft, l, r, flt)
    ELSE Err("NoIndexFoundForMatch", Some(exp))

\* lines 455-457 of matches_with_doc_id: the guard `run` is taken first, the
\* read lock of doc_ids is awaited next, get_doc_id runs on the guard, and the
\* guard lives to the end of the function
MatchesWithDocIdEvents == <<"lock", "rwlock", "storage", "unlock">>

\* lines 490-499 of matches_with_value: terms.read().await; the analyzer is
\* handed the Transaction itself, not a guard
MatchesWithValueEvents(ft) ==
    IF ~IsMatchable(ft.query_terms_set) THEN <<>> ELSE <<"rwlock">>

\* what matches() does with the Transaction
MatchesEvents(ex, exp) ==
    IF exp \in DOMAIN ex.exp_entries
    THEN LET ft == ex.exp_entries[exp]
             ix_def == GetIndexDef(ex, ft.index_option.ix_ref)
         IN  IF IsSome(ix_def) /\ ex.table = Unwrap(ix_def).what
             THEN MatchesWithDocIdEvents
             ELSE MatchesWithValueEvents(ft)
    ELSE <<>>

\* QueryExecutor::matches(ctx, opt, txn, thg, exp, l, r)
MatchesCall(thg, exp, l, r, flt) ==
    /\ phase = "exec"
    /\ txn_log' = [op |-> "matches", events |-> MatchesEvents(exec, exp)]
    /\ ret' = [op |-> "matches", thg |-> thg, exp |-> exp, l |-> l, r |-> r,
               val |-> MatchesResult(store, exec, thg, exp, l, r, flt)]
    /\ UNCHANGED << store, phase, plan, new_result, exec, ft_news, mt_news,
                    knn_searches, it_refs,
                    knn_log, tasks, iter_stage, its >>

(***************************************************************************)
(* QueryExecutor::highlight, offsets and score.  A match_ref argument is a *)
(* Value: a Number or anything else.                                       *)
(***************************************************************************)
\* sql::Value
ValueNone == [kind |-> "None"]
Number(n) == [kind |-> "Number", n |-> n]
Strand(str) == [kind |-> "Strand", s |-> str]

\* pub type MatchRef = u8: `n.to_int() as u8` keeps the low 8 bits
MatchRefBits == 8

\* fn get_match_ref
GetMatchRef(match_ref) ==
    IF match_ref.kind = "Number"
    THEN Some(match_ref.n % Pow2(MatchRefBits))
    ELSE NoneV

GetFtEntry_AnyEntry(ex, match_ref) ==
    IF ex.mr_entries = EmptyMap THEN NoneV
    ELSE Some(ex.mr_entries[CHOOSE mr \in DOMAIN ex.mr_entries : TRUE])

\* fn get_ft_entry
GetFtEntry(ex, match_ref) ==
    IF IsSome(GetMatchRef(match_ref))
    THEN MapGet(ex.mr_entries, Unwrap(GetMatchRef(match_ref)))
    ELSE NoneV

\* fn get_ft_entry_and_index
GetFtEntryAndIndex(ex, match_ref) ==
    LET e == GetFtEntry(ex, match_ref) IN
    IF IsSome(e) /\ Unwrap(e).index_option.ix_ref \in DOMAIN ex.ft_map
    THEN Some(<<Unwrap(e), ex.ft_map[Unwrap(e).index_option.ix_ref]>>)
    ELSE NoneV

\* FtIndex::highlight and FtIndex::extract_offsets: a value computed from the
\* record and the query terms list
FtHighlight(thg, terms_list) == Strand("highlighted")
FtExtractOffsets(thg, terms_list) == Strand("offsets")

\* what highlight(txn, thg, prefix, suffix, match_ref, partial, doc) returns
HighlightResult(ex, thg, match_ref, flt) ==
    LET ei == GetFtEntryAndIndex(ex, match_ref) IN
    IF IsSome(ei)
    THEN IF flt = 1 THEN Err("StorageError", NoneV)
         ELSE Ok(FtHighlight(thg, Unwrap(ei)[1].query_terms_list))
    ELSE Ok(ValueNone)

\* what offsets(txn, thg, match_ref, partial) returns
OffsetsResult(ex, thg, match_ref, flt) ==
    LET ei == GetFtEntryAndIndex(ex, match_ref) IN
    IF IsSome(ei)
    THEN IF flt = 1 THEN Err("StorageError", NoneV)
         ELSE Ok(FtExtractOffsets(thg, Unwrap(ei)[1].query_terms_list))
    ELSE Ok(ValueNone)

\* BM25Scorer::score: a score for a DocId some term's posting list holds
ScorerScore(scorer, doc_id) ==
    LET n == Cardinality({i \in 1..Len(scorer) :
                            IsSome(scorer[i]) /\ doc_id \in Unwrap(scorer[i]).docs})
    IN  IF n > 0 THEN Some(n) ELSE NoneV

\* line 573: if doc_id.is_none()
NeedsLookup_Always(doc_id) == TRUE
NeedsLookup(doc_id) == ~IsSome(doc_id)

\* what score(txn, match_ref, rid, doc_id) returns, with the number of
\* get_doc_id calls it made; the fallible call numbered flt fails
ScoreResult(st, ex, match_ref, rid, doc_id, flt) ==
    LET e == GetFtEntry(ex, match_ref) IN
    IF IsSome(e) /\ IsSome(Unwrap(e).scorer)
    THEN LET lookup == NeedsLookup(doc_id)
             calls == IF lookup THEN 1 ELSE 0
             d == IF lookup THEN GetDocId(st, rid) ELSE doc_id
         IN  IF lookup /\ flt = 1
             THEN [val |-> Err("StorageError", NoneV), lookups |-> 1]
             ELSE IF ~IsSome(d) THEN [val |-> Ok(ValueNone), lookups |-> calls]
             ELSE IF flt = calls + 1
             THEN [val |-> Err("StorageError", NoneV), lookups |-> calls]
             ELSE LET score == ScorerScore(Unwrap(Unwrap(e).scorer), Unwrap(d)) IN
                  [val |-> IF IsSome(score) THEN Ok(Number(Unwrap(score)))
                           ELSE Ok(ValueNone),
                   lookups |-> calls]
    ELSE [val |-> Ok(ValueNone), lookups |-> 0]

\* lines 531-544 and 556-558: highlight and offsets take the guard for the
\* one call they make on the full-text index
HighlightEvents(ex, match_ref) ==
    IF IsSome(GetFtEntryAndIndex(ex, match_ref))
    THEN <<"lock", "storage", "unlock">>
    ELSE <<>>

ScoreEvents_LockPerCall(st, ex, match_ref, rid, doc_id, flt) ==
    LET e == GetFtEntry(ex, match_ref) IN
    IF IsSome(e) /\ IsSome(Unwrap(e).scorer)
    THEN LET lookup == NeedsLookup(doc_id)
             d == IF lookup THEN GetDocId(st, rid) ELSE doc_id
         IN  (IF lookup THEN <<"rwlock", "lock", "storage", "unlock">> ELSE <<>>)
             \o (IF (lookup /\ flt = 1) \/ ~IsSome(d) THEN <<>>
                 ELSE <<"lock", "storage", "unlock">>)
    ELSE <<>>

\* lines 571-583 of score: the guard is taken once a scorer is found and lives
\* to the end of the block, over the DocId lookup and the scorer
ScoreEvents(st, ex, match_ref, rid, doc_id, flt) ==
    LET e == GetFtEntry(ex, match_ref) IN
    IF IsSome(e) /\ IsSome(Unwrap(e).scorer)
    THEN LET lookup == NeedsLookup(doc_id)
             d == IF lookup THEN GetDocId(st, rid) ELSE doc_id
         IN  <<"lock">>
             \o (IF lookup THEN <<"rwlock", "storage">> ELSE <<>>)
             \o (IF (lookup /\ flt = 1) \/ ~IsSome(d) THEN <<>> ELSE <<"storage">>)
             \o <<"unlock">>
    ELSE <<>>

\* QueryExecutor::highlight
HighlightCall(thg, match_ref, flt) ==
    /\ phase = "exec"
    /\ txn_log' = [op |-> "highlight", events |-> HighlightEvents(exec, match_ref)]
    /\ ret' = [op |-> "highlight", thg |-> thg, match_ref |-> match_ref,
               val |-> HighlightResult(exec, thg, match_ref, flt)]
    /\ UNCHANGED << store, phase, plan, new_result, exec, ft_news, mt_news,
                    knn_searches, it_refs,
                    knn_log, tasks, iter_stage, its >>

\* QueryExecutor::offsets
OffsetsCall(thg, match_ref, flt) ==
    /\ phase = "exec"
    /\ txn_log' = [op |-> "offsets", events |-> HighlightEvents(exec, match_ref)]
    /\ ret' = [op |-> "offsets", thg |-> thg, match_ref |-> match_ref,
               val |-> OffsetsResult(exec, thg, match_ref, flt)]
    /\ UNCHANGED << store, phase, plan, new_result, exec, ft_news, mt_news,
                    knn_searches, it_refs,
                    knn_log, tasks, iter_stage, its >>

\* QueryExecutor::score
ScoreCall(match_ref, rid, doc_id, flt) ==
    /\ phase = "exec"
    /\ txn_log' = [op |-> "score",
                   events |-> ScoreEvents(store, exec, match_ref, rid, doc_id, flt)]
    /\ LET r == ScoreResult(store, exec, match_ref, rid, doc_id, flt) IN
       ret' = [op |-> "score", match_ref |-> match_ref, rid |-> rid,
               doc_id |-> doc_id, val |-> r.val, lookups |-> r.lookups]
    /\ UNCHANGED << store, phase, plan, new_result, exec, ft_news, mt_news,
                    knn_searches, it_refs,
                    knn_log, tasks, iter_stage, its >>

(***************************************************************************)
(* QueryExecutor::knn and build_knn_set.                                   *)
(***************************************************************************)
\* sql::Value of an indexed field: an array of numbers
Array(v) == [kind |-> "Array", v |-> v]

KnnPriorityListAdd_NoEviction(p, dist, thg) ==
    LET pos == Cardinality({i \in 1..Len(p.items) : p.items[i].dist <= dist})
    IN  [p EXCEPT !.items = SubSeq(p.items, 1, pos) \o << [dist |-> dist, thg |-> thg] >>
                               \o SubSeq(p.items, pos + 1, Len(p.items))]

KnnPriorityListAdd_LastSeenWins(p, dist, thg) ==
    LET pos == Cardinality({i \in 1..Len(p.items) : p.items[i].dist < dist})
        ins == SubSeq(p.items, 1, pos) \o << [dist |-> dist, thg |-> thg] >>
                   \o SubSeq(p.items, pos + 1, Len(p.items))
    IN  [p EXCEPT !.items = IF Len(ins) > p.k THEN SubSeq(ins, 1, p.k) ELSE ins]

\* KnnPriorityList::add: the items are kept in ascending distance, a new one
\* after those of equal distance; on overflow the last one is evicted
KnnPriorityListAdd(p, dist, thg) ==
    LET pos == Cardinality({i \in 1..Len(p.items) : p.items[i].dist <= dist})
        ins == SubSeq(p.items, 1, pos) \o << [dist |-> dist, thg |-> thg] >>
                   \o SubSeq(p.items, pos + 1, Len(p.items))
    IN  [p EXCEPT !.items = IF Len(ins) > p.k THEN SubSeq(ins, 1, p.k) ELSE ins]

\* KnnPriorityList::build: the Things held, in ascending distance
KnnPriorityListBuild(p) == [i \in 1..Len(p.items) |-> p.items[i].thg]

\* IterationStage, as ctx.get_iteration_stage() returns it
StageCollect == Some([kind |-> "Collect"])
StageIterate(e) == Some([kind |-> "Iterate", e |-> e])

\* line 207: id.compute(..).await?.try_into()?: the field as a Vec<Number>
FieldVector(doc) ==
    IF doc.kind = "Array" THEN Ok(doc.v) ELSE Err("TryInto", NoneV)

RECURSIVE SumAbsDiff(_, _, _)
SumAbsDiff(v, w, i) ==
    IF i > Len(v) THEN 0
    ELSE (IF v[i] >= w[i] THEN v[i] - w[i] ELSE w[i] - v[i]) + SumAbsDiff(v, w, i + 1)

\* line 208: dist.compute(&v, val)?: a distance of two vectors of one dimension
DistanceCompute(v, val) ==
    IF Len(v) # Len(val) THEN Err("InvalidVectorDimension", NoneV)
    ELSE Ok(SumAbsDiff(v, val, 1))

\* lines 194-204: the Iterate stage
KnnIterate(e, thg, exp) ==
    /\ IsSome(e)
    /\ thg.tb \in DOMAIN Unwrap(e)
    /\ exp \in DOMAIN Unwrap(e)[thg.tb]
    /\ thg \in Unwrap(e)[thg.tb][exp]

\* lines 205-211: any other stage; [val, add], add being the distance handed
\* to KnnPriorityList::add
KnnCollect_SkipsOnError(ex, doc, exp) ==
    IF exp \in DOMAIN ex.knn_entries
    THEN LET v == FieldVector(doc) IN
         IF IsErr(v) THEN [val |-> Ok(TRUE), add |-> NoneV]
         ELSE LET dist == DistanceCompute(v.val, ex.knn_entries[exp].val) IN
              IF IsErr(dist) THEN [val |-> Ok(TRUE), add |-> NoneV]
              ELSE [val |-> Ok(TRUE), add |-> Some(dist.val)]
    ELSE [val |-> Ok(TRUE), add |-> NoneV]

KnnCollect(ex, doc, exp) ==
    IF exp \in DOMAIN ex.knn_entries
    THEN LET v == FieldVector(doc) IN
         IF IsErr(v) THEN [val |-> v, add |-> NoneV]
         ELSE LET dist == DistanceCompute(v.val, ex.knn_entries[exp].val) IN
              IF IsErr(dist) THEN [val |-> dist, add |-> NoneV]
              ELSE [val |-> Ok(TRUE), add |-> Some(dist.val)]
    ELSE [val |-> Ok(TRUE), add |-> NoneV]

\* line 194: if let Some(IterationStage::Iterate(e)) = ctx.get_iteration_stage()
IsIterate_Never(stage) == FALSE
IsIterate_OnlyWithoutSet(stage) ==
    IsSome(stage) /\ Unwrap(stage).kind = "Iterate" /\ ~IsSome(Unwrap(stage).e)
IsIterate(stage) == IsSome(stage) /\ Unwrap(stage).kind = "Iterate"

\* p.add(dist, thg) on the KnnPriorityList of exp
AddToList_Lost(ex, exp, dist, thg) ==
    [ex EXCEPT !.knn_entries[exp].p.items =
        IF @ = <<>> THEN << [dist |-> dist, thg |-> thg] >> ELSE @]
AddToList_EveryList(ex, exp, dist, thg) ==
    [ex EXCEPT !.knn_entries =
        [e \in DOMAIN @ |-> [@[e] EXCEPT !.p = KnnPriorityListAdd(@, dist, thg)]]]
AddToList(ex, exp, dist, thg) ==
    [ex EXCEPT !.knn_entries[exp].p = KnnPriorityListAdd(@, dist, thg)]

\* QueryExecutor::knn(ctx, opt, txn, thg, doc, exp), run by one task
KnnCall(stage, thg, doc, exp) ==
    /\ phase = "exec"
    /\ IF IsIterate(stage)
       THEN /\ ret' = [op |-> "knn", stage |-> stage, thg |-> thg, exp |-> exp,
                       val |-> Ok(KnnIterate(Unwrap(stage).e, thg, exp)), add |-> NoneV]
            /\ UNCHANGED << exec, knn_log >>
       ELSE LET r == KnnCollect(exec, doc, exp) IN
            /\ ret' = [op |-> "knn", stage |-> stage, thg |-> thg, exp |-> exp,
                       val |-> r.val, add |-> r.add]
            /\ IF IsSome(r.add)
               THEN /\ exec' = AddToList(exec, exp, Unwrap(r.add), thg)
                    /\ knn_log' = Append(knn_log, [exp |-> exp, dist |-> Unwrap(r.add),
                                                   thg |-> thg])
               ELSE UNCHANGED << exec, knn_log >>
    /\ UNCHANGED << store, phase, plan, new_result, ft_news, mt_news,
                    knn_searches, it_refs, tasks, iter_stage, txn_log, its >>

\* knn() run by several row tasks on clones of one executor: lines 205-208 of a
\* task read only the entry (id, val, dist) and the task's own row; a task
\* whose computation fails, or whose expression has no entry, returns at once
KnnCompute(thg, doc, exp) ==
    /\ phase = "exec"
    /\ thg \notin DOMAIN tasks
    /\ LET r == KnnCollect(exec, doc, exp) IN
       /\ tasks' = MapInsert(tasks, thg,
                       [exp |-> exp, add |-> r.add,
                        pc |-> IF IsSome(r.add) THEN "computed" ELSE "done"])
       /\ IF IsSome(r.add)
          THEN UNCHANGED ret
          ELSE ret' = [op |-> "knn", stage |-> StageCollect, thg |-> thg, exp |-> exp,
                       val |-> r.val, add |-> r.add]
    /\ UNCHANGED << store, phase, plan, new_result, exec, ft_news, mt_news,
                    knn_searches, it_refs, knn_log, iter_stage, txn_log, its >>

\* line 209 of a task: p.add(dist, thg).await on the list all clones share,
\* then line 211: Ok(Value::Bool(true))
KnnAdd(thg) ==
    /\ phase = "exec"
    /\ thg \in DOMAIN tasks
    /\ tasks[thg].pc = "computed"
    /\ LET t == tasks[thg] IN
       /\ exec' = AddToList(exec, t.exp, Unwrap(t.add), thg)
       /\ knn_log' = Append(knn_log, [exp |-> t.exp, dist |-> Unwrap(t.add), thg |-> thg])
       /\ tasks' = [tasks EXCEPT ![thg].pc = "done"]
       /\ ret' = [op |-> "knn", stage |-> StageCollect, thg |-> thg, exp |-> t.exp,
                  val |-> Ok(TRUE), add |-> t.add]
    /\ UNCHANGED << store, phase, plan, new_result, ft_news, mt_news,
                    knn_searches, it_refs, iter_stage, txn_log, its >>

\* every row task that was started has returned
AllTasksDone == \A thg \in DOMAIN tasks : tasks[thg].pc = "done"

\* lines 216-220: the KnnSet build_knn_set returns
BuildKnnSetResult(ex) ==
    [exp \in DOMAIN ex.knn_entries |-> KnnPriorityListBuild(ex.knn_entries[exp].p)]

\* QueryExecutor::build_knn_set()
BuildKnnSet ==
    /\ phase = "exec"
    /\ ret' = [op |-> "build_knn_set", val |-> BuildKnnSetResult(exec)]
    /\ UNCHANGED << store, phase, plan, new_result, exec, ft_news, mt_news,
                    knn_searches, it_refs, knn_log, tasks, iter_stage, txn_log, its >>

(***************************************************************************)
(* The plan driver of a kNN query: a first pass over the rows in the       *)
(* build-set stage, build_knn_set once every row task of that pass has     *)
(* returned, and a second pass in the Iterate stage with the sets built.   *)
(***************************************************************************)
\* the Things of a built sequence
SeqRange(q) == {q[i] : i \in 1..Len(q)}

\* the first pass begins: has_knn() holds and the rows are emitted in the
\* build-set stage
StartCollect ==
    /\ phase = "exec"
    /\ iter_stage = NoneV
    /\ exec.knn_entries # EmptyMap
    /\ iter_stage' = StageCollect
    /\ UNCHANGED << store, phase, plan, new_result, exec, ft_news, mt_news,
                    knn_searches, it_refs, ret, knn_log, tasks, txn_log, its >>

\* between the passes: the driver has awaited the row tasks of the first
\* pass, calls build_knn_set and hands the sets to the Iterate stage
NextIterationStage ==
    /\ phase = "exec"
    /\ iter_stage = StageCollect
    /\ AllTasksDone
    /\ ret' = [op |-> "build_knn_set", val |-> BuildKnnSetResult(exec)]
    /\ iter_stage' = StageIterate(Some([tb \in {exec.table} |->
                          [exp \in DOMAIN exec.knn_entries |->
                              SeqRange(BuildKnnSetResult(exec)[exp])]]))
    /\ UNCHANGED << store, phase, plan, new_result, exec, ft_news, mt_news,
                    knn_searches, it_refs, knn_log, tasks, txn_log, its >>

(***************************************************************************)
(* The inputs explored.                                                    *)
(***************************************************************************)
SeqsUpTo(S, n) == UNION { [1..k -> S] : k \in 0..n }

\* the options of a plan handed to InnerQueryExecutor::new: each operator on
\* the index kinds the build tells apart for it (IndexRef 5 names no definition)
MatchesOps ==
    {Matches(<<"quick", "brown">>, mr) : mr \in {NoneV} \cup {Some(m) : m \in MatchRefs}}
PlanOptions ==
    {<<exp, IndexOption(ir, "Left", op)>> : exp \in Exprs, ir \in {0, 1, 2}, op \in MatchesOps}
    \cup {<<exp, IndexOption(ir, "Left", Knn(Vector, 2))>> : exp \in Exprs, ir \in {0, 2}}
    \cup {<<exp, IndexOption(ir, "Left", Equality("a"))>> : exp \in Exprs, ir \in {2, 3, 5}}
IndexesMaps ==
    [options : SeqsUpTo(PlanOptions, MaxOptions), definitions : {Definitions}]

\* KnnExpressions: expression -> (k, field, vector, distance)
KnnInputs ==
    { EmptyMap,
      [exp \in {"e1"} |-> [k |-> 2, id |-> "pt", val |-> Vector, dist |-> "Euclidean"]] }

\* which fallible collaborator call of a build fails (0: none): one of the
\* calls the build of im makes when none fails
BuildFaults(st, im) == 0..BuildLoop(st, im, InitBuild, 0, 1).calls

NoPlan == [im |-> [options |-> <<>>, definitions |-> <<>>], knns |-> EmptyMap]

InitIn(stores) ==
    /\ store \in stores
    /\ phase = "init"
    /\ plan = NoPlan
    /\ new_result = NoErr
    /\ exec = NoExec
    /\ ft_news = <<>>
    /\ mt_news = <<>>
    /\ knn_searches = 0
    /\ it_refs = <<>>
    /\ ret = NoCall
    /\ knn_log = <<>>
    /\ tasks = NoTasks
    /\ iter_stage = NoneV
    /\ txn_log = NoTxnLog
    /\ its = <<>>

Init == InitIn({st \in Stores : Len(st.mtree) > 1})

Next ==
    \/ /\ phase = "init"
       /\ \E im \in IndexesMaps, knns \in KnnInputs :
             \E flt \in BuildFaults(store, im) : New(Table, im, knns, flt)

Spec == Init /\ [][Next]_vars

(***************************************************************************)
(* What the plan handed to InnerQueryExecutor::new says.                   *)
(***************************************************************************)
Options == plan.im.options
OptExp(i) == Options[i][1]
OptIo(i) == Options[i][2]
\* the index kind an IndexRef of the plan names ("" when it names none)
KindOf(ir) ==
    IF ir < Len(plan.im.definitions) THEN plan.im.definitions[ir + 1].index ELSE ""
ReferencedRefs(kind) ==
    {OptIo(i).ix_ref : i \in {j \in 1..Len(Options) : KindOf(OptIo(j).ix_ref) = kind}}
\* the M-Tree IndexRefs some option references with a Knn operator
KnnReferencedRefs ==
    {OptIo(i).ix_ref : i \in {j \in 1..Len(Options) :
        KindOf(OptIo(j).ix_ref) = "MTree" /\ OptIo(j).op.kind = "Knn"}}

\* the backend handles the fields of an InnerQueryExecutor hold for an IndexRef
StoredBackendHandles(ex, ir) ==
    IF ir \in DOMAIN ex.ft_map THEN {ex.ft_map[ir]} ELSE {}

\* C1 as stated: after a successful build the FtIndex instances constructed
\* number the distinct referenced Search IndexRefs, and the MTreeIndex
\* instances constructed number the distinct referenced M-Tree IndexRefs.
C1_Original ==
    phase = "built" =>
        /\ Len(ft_news) = Cardinality(ReferencedRefs("Search"))
        /\ Len(mt_news) = Cardinality(ReferencedRefs("MTree"))

\* C1, amended: after a successful build the FtIndex instances constructed
\* number the distinct referenced Search IndexRefs (one per IndexRef), and the
\* MTreeIndex instances constructed number the distinct M-Tree IndexRefs that
\* some option references with a Knn operator (one per IndexRef).
C1_BackendsOncePerRef ==
    phase = "built" =>
        /\ Len(ft_news) = Cardinality(ReferencedRefs("Search"))
        /\ {ft_news[i] : i \in 1..Len(ft_news)} = ReferencedRefs("Search")
        /\ Len(mt_news) = Cardinality(KnnReferencedRefs)
        /\ {mt_news[i] : i \in 1..Len(mt_news)} = KnnReferencedRefs

\* two predicates of a built plan use the same Search index, and two the same
\* M-Tree index with Knn operators
C1_Witness ==
    /\ phase = "built"
    /\ Len(Options) = 2
    /\ OptIo(1).ix_ref = OptIo(2).ix_ref
    /\ KindOf(OptIo(1).ix_ref) = "Search"
    /\ Len(ft_news) = 1

\* C2 as stated: after a successful build the executor holds exactly one
\* stored backend handle for every referenced IndexRef that names a
\* full-text index or an M-Tree index.
C2_Original ==
    phase = "built" =>
        \A ir \in ReferencedRefs("Search") \cup ReferencedRefs("MTree") :
            Cardinality(StoredBackendHandles(exec, ir)) = 1

\* C2, amended: after a successful build the executor holds exactly one
\* stored FtIndex handle for every referenced IndexRef that names a full-text
\* index, the handle of an instance constructed for that IndexRef, and no
\* handle for any other IndexRef: an MTreeIndex handle lives only in the
\* build's local mt_map and is not a field of the executor.
C2_OneStoredFtHandlePerRef ==
    phase = "built" =>
        /\ DOMAIN exec.ft_map = ReferencedRefs("Search")
        /\ \A ir \in ReferencedRefs("Search") :
              /\ Cardinality(StoredBackendHandles(exec, ir)) = 1
              /\ \A h \in StoredBackendHandles(exec, ir) :
                    h \in 1..Len(ft_news) /\ ft_news[h] = ir
        /\ \A ir \in ReferencedRefs("MTree") : StoredBackendHandles(exec, ir) = {}

\* a built plan references a Search index twice and an M-Tree index with Knn
C2_Witness ==
    /\ phase = "built"
    /\ Len(Options) = 2
    /\ OptIo(1).ix_ref = OptIo(2).ix_ref
    /\ KindOf(OptIo(1).ix_ref) = "Search"
    /\ OptIo(1).op.kind = "Matches"
    /\ OptIo(2).op.kind # "Matches"
    /\ DOMAIN exec.ft_map = {OptIo(1).ix_ref}

\* options i < j are Matches predicates declaring the same MatchRef
SameMatchRef(i, j) ==
    /\ i < j
    /\ OptIo(i).op.kind = "Matches" /\ OptIo(j).op.kind = "Matches"
    /\ IsSome(OptIo(i).op.mr) /\ OptIo(i).op.mr = OptIo(j).op.mr
OnSearch(i) == KindOf(OptIo(i).ix_ref) = "Search"

FirstRepeat ==
    CHOOSE j \in 1..Len(Options) :
        /\ \E i \in 1..Len(Options) : SameMatchRef(i, j) /\ OnSearch(i) /\ OnSearch(j)
        /\ \A k \in 1..(j - 1) :
              ~\E i \in 1..Len(Options) : SameMatchRef(i, k) /\ OnSearch(i) /\ OnSearch(k)

MayFailNoIndex(exp) ==
    \E thg \in Things, l \in Texts, r \in Texts, flt \in 0..1 :
        LET v == MatchesResult(store, exec, thg, exp, l, r, flt) IN
        IsErr(v) /\ v.kind = "NoIndexFoundForMatch"

\* C4 as stated: after a successful build every option whose operator is
\* Matches has a recorded expression -> entry binding, and matches() for
\* its expression never fails with NoIndexFoundForMatch.
C4_Original ==
    phase = "built" =>
        \A i \in 1..Len(Options) :
            OptIo(i).op.kind = "Matches" =>
                OptExp(i) \in DOMAIN exec.exp_entries /\ ~MayFailNoIndex(OptExp(i))

\* C4, amended: after a successful build every option whose operator is
\* Matches and whose IndexRef names a full-text (Search) index has a
\* recorded expression -> entry binding, built from a Matches option of that
\* expression, and matches() for its expression never fails with
\* NoIndexFoundForMatch.
C4_MatchesOptionsAreBound ==
    phase = "built" =>
        \A i \in 1..Len(Options) :
            (OptIo(i).op.kind = "Matches" /\ OnSearch(i)) =>
                /\ OptExp(i) \in DOMAIN exec.exp_entries
                /\ \E j \in 1..Len(Options) :
                      /\ OptExp(j) = OptExp(i)
                      /\ exec.exp_entries[OptExp(i)].index_option = OptIo(j)
                /\ ~MayFailNoIndex(OptExp(i))

\* a built plan binds two expressions to Matches predicates on one index
C4_Witness ==
    /\ phase = "built"
    /\ Len(Options) = 2
    /\ OptIo(1).op.kind = "Matches" /\ OptIo(2).op.kind = "Matches"
    /\ OptIo(1).ix_ref = OptIo(2).ix_ref /\ OnSearch(1)
    /\ OptExp(1) # OptExp(2)
    /\ DOMAIN exec.exp_entries = {OptExp(1), OptExp(2)}

(***************************************************************************)
(* add_iterator on a vector that already holds many entries: the executor  *)
(* of an empty plan after n add_iterator calls of one entry; it_refs logs   *)
(* the calls made from there on.                                           *)
(***************************************************************************)
FillerEntry == Single("e1", IndexOption(3, "Left", Equality("a")))

\* the entries registered on top
IterEntries ==
    {Single(exp, IndexOption(ir, "Left", Equality("b"))) : exp \in Exprs, ir \in {3, 4}}

\* the numbers of earlier add_iterator calls: none, a few, and as many as
\* there are IteratorRefs less two, less one
PriorAdds == {0, 1, Pow2(IteratorRefBits) - 2, Pow2(IteratorRefBits) - 1}

AfterAdds(n) ==
    /\ store \in {st \in Stores : Len(st.mtree) > 1}
    /\ phase = "built"
    /\ plan = [im |-> [options |-> <<>>, definitions |-> Definitions],
               knns |-> EmptyMap]
    /\ new_result = Ok(NoneV)
    /\ exec = [NoExec EXCEPT !.table = Table,
                             !.index_definitions = Definitions,
                             !.it_entries = [i \in 1..n |-> FillerEntry]]
    /\ ft_news = <<>>
    /\ mt_news = <<>>
    /\ knn_searches = 0
    /\ it_refs = <<>>
    /\ ret = NoCall
    /\ knn_log = <<>>
    /\ tasks = NoTasks
    /\ iter_stage = NoneV
    /\ txn_log = NoTxnLog
    /\ its = <<>>

InitIter == \E n \in PriorAdds : AfterAdds(n)

NextIter ==
    \/ /\ \E n \in PriorAdds :
             n <= Len(exec.it_entries) /\ Len(exec.it_entries) < n + MaxExtraAdds
       /\ \E e \in IterEntries : AddIterator(e)
    \/ From

SpecIter == InitIter /\ [][NextIter]_vars

\* the zero-based position of the entry the i-th logged add_iterator call
\* appended
PositionOfAdd(i) == Len(exec.it_entries) - Len(it_refs) + i - 1

\* C5 as stated: every add_iterator call returns the position of the entry
\* it appended, no two registered entries received the same IteratorRef, and
\* every returned IteratorRef resolves to the entry it was returned for.
C5_IteratorRefsNeverAlias ==
    /\ \A i \in 1..Len(it_refs) : it_refs[i] = PositionOfAdd(i)
    /\ \A i, j \in 1..Len(it_refs) : i # j => it_refs[i] # it_refs[j]
    /\ \A i \in 1..Len(it_refs) :
          VecGet(exec.it_entries, it_refs[i])
              = Some(exec.it_entries[PositionOfAdd(i) + 1])

(***************************************************************************)
(* Iterators: a few plans, any registered entry, new_iterator.             *)
(***************************************************************************)
ItPlanOptions ==
    { <<"e1", IndexOption(0, "Left", Matches(<<"quick">>, Some(1)))>>,
      <<"e1", IndexOption(2, "Left", Knn(Vector, 2))>> }
ItIndexesMaps ==
    [options : SeqsUpTo(ItPlanOptions, MaxOptions), definitions : {Definitions}]

\* the nested options of a Join
JoinInners ==
    { << IndexOption(3, "Left", Equality("a")) >>,
      << IndexOption(0, "Left", Matches(<<"quick">>, NoneV)),
         IndexOption(3, "Left", Knn(Vector, 2)),
         IndexOption(0, "Left", Matches(<<"quick">>, NoneV)) >> }
ItOps ==
    {Equality("a"), Union(<<"a", "c">>), Matches(<<"quick">>, NoneV), Knn(Vector, 2)}
    \cup {Join(ios) : ios \in JoinInners}
FromTos ==
    { <<RangeValue(10, FALSE), RangeValue(30, TRUE)>> }
ItEntries ==
    {Single(exp, IndexOption(ir, "Left", op)) : exp \in Exprs, ir \in IndexRefs, op \in ItOps}
    \cup {RangeEntry({"e1"}, ir, ft[1], ft[2]) : ir \in IndexRefs, ft \in FromTos}

\* which MatchesThingIterator::new call of a new_iterator fails (0: none)
ItFaults == 0..2

NextIt ==
    \/ /\ phase = "init"
       /\ \E im \in ItIndexesMaps :
             \E flt \in BuildFaults(store, im) : New(Table, im, EmptyMap, flt)
    \/ /\ phase = "built"
       /\ Len(exec.it_entries) < MaxIterators
       /\ \E e \in ItEntries : AddIterator(e)
    \/ From
    \/ /\ phase = "exec"
       /\ \E it_ref \in 0..MaxIterators, flt \in ItFaults : NewIterator(it_ref, flt)

SpecIt == Init /\ [][NextIt]_vars

\* new_iterator was last called with the IteratorRef of a registered entry
CalledOnEntry == ret.op = "new_iterator" /\ ret.it_ref < Len(exec.it_entries)
RetEntry == exec.it_entries[ret.it_ref + 1]
\* the kind of the index an IndexRef names in the executor ("" when none)
DefKind(ir) ==
    IF IsSome(GetIndexDef(exec, ir)) THEN Unwrap(GetIndexDef(exec, ir)).index ELSE ""
RetDef(ir) == Unwrap(GetIndexDef(exec, ir))
Returned(it) == ret.val = Ok(Some(it))
ReturnedSome == IsOk(ret.val) /\ IsSome(ret.val.val)
RetIt == Unwrap(ret.val.val)

\* the iterator variant the dispatch table names for (index kind, operator)
ExpectedVariant(kind, op_kind) ==
    IF kind = "Idx"
    THEN (IF op_kind = "Equality" THEN "IndexEqual"
          ELSE IF op_kind = "Union" THEN "IndexUnion" ELSE "IndexJoin")
    ELSE (IF op_kind = "Equality" THEN "UniqueEqual"
          ELSE IF op_kind = "Union" THEN "UniqueUnion" ELSE "UniqueJoin")

\* some option nested in a Join is a Matches on a full-text index
RECURSIVE HasNestedMatches(_)
HasNestedMatches(ios) ==
    \E i \in 1..Len(ios) :
        \/ ios[i].op.kind = "Matches" /\ DefKind(ios[i].ix_ref) = "Search"
        \/ /\ ios[i].op.kind = "Join" /\ DefKind(ios[i].ix_ref) \in {"Idx", "Uniq"}
           /\ HasNestedMatches(ios[i].op.ios)

C6_Case ==
    /\ CalledOnEntry
    /\ RetEntry.tag = "Single"
    /\ DefKind(RetEntry.io.ix_ref) \in {"Idx", "Uniq"}
    /\ RetEntry.io.op.kind \in {"Equality", "Union", "Join"}

\* C6 as stated: for a registered Single entry on a Standard (Unique) index
\* with operator Equality, Union or Join, new_iterator returns the IndexEqual,
\* IndexUnion or IndexJoin (UniqueEqual, UniqueUnion or UniqueJoin) iterator.
C6_Original ==
    C6_Case =>
        /\ ReturnedSome
        /\ RetIt.variant = ExpectedVariant(DefKind(RetEntry.io.ix_ref),
                                           RetEntry.io.op.kind)

\* C6, amended: for such an entry new_iterator returns the iterator variant
\* of the dispatch table, on the entry's index and with the operator's value
\* (Equality) or values (Union), except that for a Join it returns the error
\* of constructing a nested Matches sub-iterator when that construction
\* fails; a Join without a nested Matches option never fails.
C6_IndexIteratorPerOperator ==
    C6_Case =>
        LET io == RetEntry.io IN
        \/ /\ ReturnedSome
           /\ RetIt.variant = ExpectedVariant(DefKind(io.ix_ref), io.op.kind)
           /\ RetIt.name = RetDef(io.ix_ref).name
           /\ RetIt.what = RetDef(io.ix_ref).what
           /\ io.op.kind = "Equality" => RetIt.arg = io.op.value
           /\ io.op.kind = "Union" => RetIt.arg = io.op.values
        \/ /\ IsErr(ret.val)
           /\ ret.val.kind = "StorageError"
           /\ io.op.kind = "Join"
           /\ HasNestedMatches(io.op.ios)

\* new_iterator returned a UniqueJoin over one nested sub-iterator
C6_Witness ==
    /\ C6_Case
    /\ DefKind(RetEntry.io.ix_ref) = "Uniq"
    /\ RetEntry.io.op.kind = "Join"
    /\ ReturnedSome
    /\ RetIt.variant = "UniqueJoin"
    /\ Len(RetIt.arg) = 1

C7_Case ==
    /\ CalledOnEntry
    /\ RetEntry.tag = "Range"
    /\ DefKind(RetEntry.ir) \in {"Idx", "Uniq"}

C8_SearchCase ==
    /\ CalledOnEntry
    /\ RetEntry.tag = "Single"
    /\ DefKind(RetEntry.io.ix_ref) = "Search"
    /\ RetEntry.io.op.kind = "Matches"
C8_MTreeCase ==
    /\ CalledOnEntry
    /\ RetEntry.tag = "Single"
    /\ DefKind(RetEntry.io.ix_ref) = "MTree"
\* the FtIndex of the entry's IndexRef and the FtEntry of its expression exist
C8_FtRegistered ==
    /\ RetEntry.io.ix_ref \in DOMAIN exec.ft_map
    /\ RetEntry.exp \in DOMAIN exec.exp_entries
\* the last Knn option on an M-Tree index the plan holds for an expression
LastKnnOption(exp) ==
    LET S == {i \in 1..Len(Options) :
                /\ OptExp(i) = exp
                /\ KindOf(OptIo(i).ix_ref) = "MTree"
                /\ OptIo(i).op.kind = "Knn"}
    IN  OptIo(CHOOSE i \in S : \A j \in S : j <= i)
\* the knn_search calls the build of the plan made
BuildSearches ==
    Cardinality({i \in 1..Len(Options) :
                    KindOf(OptIo(i).ix_ref) = "MTree" /\ OptIo(i).op.kind = "Knn"})

\* C8 as stated, for entries whose expression has its FtEntry (and the
\* FtIndex of its IndexRef) resp. its MtEntry registered: a Single entry on
\* a Search index with a Matches operator gets a Matches iterator built from
\* that FtEntry, and a Single entry on an M-Tree index gets a Knn iterator
\* over the DocId sequence stored in the MtEntry.
C8_Original ==
    /\ (C8_SearchCase /\ C8_FtRegistered) =>
          (ReturnedSome /\ RetIt.variant = "Matches")
    /\ (C8_MTreeCase /\ RetEntry.exp \in DOMAIN exec.mt_entries) =>
          (ReturnedSome /\ RetIt.variant = "Knn")

\* C8, amended: for a Single entry on a Search index with a Matches operator,
\* when the FtIndex of the entry's IndexRef and the FtEntry of the entry's
\* expression are registered, new_iterator returns a Matches iterator built
\* from that FtIndex and that FtEntry's posting lists, or the error of
\* constructing it; otherwise it returns None.  For a Single entry on an
\* M-Tree index, when the expression has an MtEntry, it returns a Knn
\* iterator over the MtEntry's DocIds handle and exactly the DocId sequence
\* the build-time knn_search returned, in that order, and no search is run
\* after the build; otherwise it returns None.
C8_MatchesAndKnnIterators ==
    /\ C8_SearchCase =>
          IF C8_FtRegistered
          THEN \/ Returned(MatchesIt(exec.ft_map[RetEntry.io.ix_ref],
                                     exec.exp_entries[RetEntry.exp].terms_docs))
               \/ ret.val = Err("StorageError", NoneV)
          ELSE ret.val = Ok(NoneV)
    /\ C8_MTreeCase =>
          /\ IF RetEntry.exp \in DOMAIN exec.mt_entries
             THEN LET io == LastKnnOption(RetEntry.exp) IN
                  /\ ReturnedSome
                  /\ RetIt.variant = "Knn"
                  /\ RetIt.doc_ids = exec.mt_entries[RetEntry.exp].doc_ids
                  /\ RetIt.res = exec.mt_entries[RetEntry.exp].res
                  /\ RetIt.res = KnnSearch(store, io.op.vec, io.op.k)
             ELSE ret.val = Ok(NoneV)
          /\ ret.knn_searches = BuildSearches
          /\ knn_searches = BuildSearches

\* new_iterator returned a Knn iterator over a stored sequence of two DocIds
C8_Witness ==
    /\ C8_MTreeCase
    /\ ReturnedSome
    /\ RetIt.variant = "Knn"
    /\ Len(RetIt.res) = 2
    /\ RetIt.res[1] # RetIt.res[2]

\* the registered entry's (index kind, operator) is not a supported pair
C9_Unsupported ==
    /\ CalledOnEntry
    /\ \/ /\ RetEntry.tag = "Single"
          /\ \/ /\ DefKind(RetEntry.io.ix_ref) \in {"Idx", "Uniq"}
                /\ RetEntry.io.op.kind \notin {"Equality", "Union", "Join"}
             \/ /\ DefKind(RetEntry.io.ix_ref) = "Search"
                /\ RetEntry.io.op.kind # "Matches"
             \/ DefKind(RetEntry.io.ix_ref) = ""
       \/ /\ RetEntry.tag = "Range"
          /\ DefKind(RetEntry.ir) \notin {"Idx", "Uniq"}

\* C9: new_iterator on a registered entry whose (index kind, operator)
\* combination is not a supported pair returns None, never an error.
C9_UnsupportedYieldsNone == C9_Unsupported => ret.val = Ok(NoneV)

\* a non-Matches entry on a Search index whose FtIndex and FtEntry are
\* registered got None
C9_Witness ==
    /\ C9_Unsupported
    /\ RetEntry.tag = "Single"
    /\ DefKind(RetEntry.io.ix_ref) = "Search"
    /\ C8_FtRegistered
    /\ ret.val = Ok(NoneV)

(***************************************************************************)
(* matches(): plans of Matches predicates on the two full-text indexes.    *)
(***************************************************************************)
MatchPlanOptions ==
    {<<"e1", IndexOption(ir, id_pos, Matches(qs, NoneV))>> :
        ir \in {0, 1}, id_pos \in {"Left", "Right"}, qs \in QueryStrings}
MatchIndexesMaps ==
    [options : SeqsUpTo(MatchPlanOptions, MaxOptions), definitions : {Definitions}]

InitMatch == InitIn(Stores)

NextMatch ==
    \/ /\ phase = "init"
       /\ \E im \in MatchIndexesMaps :
             \E flt \in BuildFaults(store, im) : New(Table, im, EmptyMap, flt)
    \/ From
    \/ /\ phase = "exec"
       /\ \E thg \in Things, exp \in Exprs, l \in Texts, r \in Texts, flt \in 0..1 :
             MatchesCall(thg, exp, l, r, flt)

SpecMatch == InitMatch /\ [][NextMatch]_vars

\* C10: matches() for an expression without a registered FtEntry fails with
\* NoIndexFoundForMatch naming the expression, and for an expression with
\* one it never fails with that error.
C10_NoIndexFoundIffNoFtEntry ==
    ret.op = "matches" =>
        IF ret.exp \in DOMAIN exec.exp_entries
        THEN ~(IsErr(ret.val) /\ ret.val.kind = "NoIndexFoundForMatch")
        ELSE ret.val = Err("NoIndexFoundForMatch", Some(ret.exp))

\* matches() answered for an expression whose FtEntry is on an index of
\* another table than the executor's
C10_Witness ==
    /\ ret.op = "matches"
    /\ ret.exp \in DOMAIN exec.exp_entries
    /\ DefKind(exec.exp_entries[ret.exp].index_option.ix_ref) = "Search"
    /\ RetDef(exec.exp_entries[ret.exp].index_option.ix_ref).what # exec.table
    /\ IsOk(ret.val)

\* matches() was last called for an expression with a registered FtEntry
MatchesOnEntry == ret.op = "matches" /\ ret.exp \in DOMAIN exec.exp_entries
RetFt == exec.exp_entries[ret.exp]
\* the table of the full-text index of that entry equals the executor's
SameTable(ft) ==
    /\ DefKind(ft.index_option.ix_ref) # ""
    /\ RetDef(ft.index_option.ix_ref).what = exec.table
\* the words of a query string or of a record value
Words(v) == {v[i] : i \in 1..Len(v)}
\* the record has a DocId, the query has a term, and every term of the query
\* has a posting list that holds the record's DocId
DocIdCondition(st, thg, qs) ==
    /\ thg \in DOMAIN st.doc_ids
    /\ Len(qs) >= 1
    /\ \A w \in Words(qs) : w \in DOMAIN st.postings /\ st.doc_ids[thg] \in st.postings[w]

\* C11: when the index's table equals the executor's table, a matches()
\* call that returns a boolean returns true iff the record has a DocId, the
\* query has at least one term and every query term has a posting list
\* holding that DocId (so false for an empty query, a term absent from the
\* dictionary or a record without DocId); its only failure is the storage
\* error of the DocId lookup.
C11_DocIdPath ==
    (MatchesOnEntry /\ SameTable(RetFt)) =>
        /\ IsOk(ret.val) =>
              ret.val.val = DocIdCondition(store, ret.thg, RetFt.index_option.op.qs)
        /\ IsErr(ret.val) => ret.val.kind = "StorageError"

\* the doc-id path answered true for a query of two terms
C11_Witness ==
    /\ MatchesOnEntry
    /\ SameTable(RetFt)
    /\ Len(RetFt.index_option.op.qs) = 2
    /\ ret.val = Ok(TRUE)

\* the operand on the side opposite to the indexed field
OppositeOperand(ft, l, r) == IF ft.index_option.id_pos = "Left" THEN r ELSE l
\* the query has a term and none of its terms is unknown to the index
QueryMatchable(st, qs) == Len(qs) >= 1 /\ Words(qs) \subseteq DOMAIN st.postings

\* C12: when the index's table differs from the executor's table, a
\* matches() call that returns a boolean returns true iff the query has a
\* term, none unknown to the index, and the query's terms are a subset of
\* the terms of the operand opposite to the indexed field; when the query has
\* no term or an unknown term it returns false without analyzing, so the
\* analyzer cannot fail then.
C12_ValuePath ==
    (MatchesOnEntry /\ ~SameTable(RetFt)) =>
        LET qs == RetFt.index_option.op.qs IN
        /\ IsOk(ret.val) =>
              ret.val.val = (/\ QueryMatchable(store, qs)
                             /\ Words(qs) \subseteq Words(OppositeOperand(RetFt, ret.l, ret.r)))
        /\ IsErr(ret.val) => (ret.val.kind = "AnalyzerError" /\ QueryMatchable(store, qs))
        /\ ~QueryMatchable(store, qs) => ret.val = Ok(FALSE)

\* the value path answered true although the indexed side's operand lacks a
\* term of the query
C12_Witness ==
    /\ MatchesOnEntry
    /\ ~SameTable(RetFt)
    /\ ret.val = Ok(TRUE)
    /\ ret.l # ret.r
    /\ ~(Words(RetFt.index_option.op.qs) \subseteq
            Words(IF RetFt.index_option.id_pos = "Left" THEN ret.l ELSE ret.r))

\* the record's value v is reflected in the index: the record has a DocId,
\* and that DocId is in the posting list of exactly the terms of v
Reflected(st, thg, v) ==
    /\ thg \in DOMAIN st.doc_ids
    /\ \A w \in DOMAIN st.postings \cup Words(v) :
          (w \in DOMAIN st.postings /\ st.doc_ids[thg] \in st.postings[w]) <=> w \in Words(v)

\* C13: for every registered FtEntry and every record whose indexed value is
\* reflected in the index, the doc-id path and the value-extraction path
\* return the same boolean.
C13_PathsAgree ==
    phase = "exec" =>
        \A exp \in DOMAIN exec.exp_entries, thg \in Things, v \in Texts :
            Reflected(store, thg, v) =>
                MatchesWithDocId(store, thg, exec.exp_entries[exp], 0)
                    = MatchesWithValue(store, exec.exp_entries[exp], v, v, 0)

\* a record whose value is reflected in the index, and an FtEntry with a
\* two-term query that both paths answer true for it
C13_Witness ==
    /\ phase = "exec"
    /\ \E exp \in DOMAIN exec.exp_entries, thg \in Things, v \in Texts :
          /\ Reflected(store, thg, v)
          /\ Len(exec.exp_entries[exp].index_option.op.qs) = 2
          /\ MatchesWithDocId(store, thg, exec.exp_entries[exp], 0) = Ok(TRUE)
          /\ MatchesWithValue(store, exec.exp_entries[exp], v, v, 0) = Ok(TRUE)

(***************************************************************************)
(* highlight, offsets and score: plans of Matches predicates with a        *)
(* MatchRef, on an index with and on one without scoring.                  *)
(***************************************************************************)
ScorePlanOptions ==
    {<<"e1", IndexOption(ir, "Left", Matches(qs, Some(1)))>> :
        ir \in {0, 1}, qs \in {<<"quick">>, <<"quick", "brown">>}}
    \cup {<<"e2", IndexOption(0, "Left", Matches(<<"brown">>, Some(2)))>>}
ScoreIndexesMaps ==
    [options : SeqsUpTo(ScorePlanOptions, MaxOptions), definitions : {Definitions}]
\* match_ref arguments: registered or not, one above the u8 range, a string
MatchRefValues == {Number(1), Number(2), Number(3), Number(257), Strand("1")}
DocIdArgs == {NoneV, Some(1), Some(2), Some(3)}

NextScore ==
    \/ /\ phase = "init"
       /\ \E im \in ScoreIndexesMaps :
             \E flt \in BuildFaults(store, im) : New(Table, im, EmptyMap, flt)
    \/ From
    \/ /\ phase = "exec"
       /\ \E thg \in Things, match_ref \in MatchRefValues, flt \in 0..1 :
             HighlightCall(thg, match_ref, flt)
    \/ /\ phase = "exec"
       /\ \E thg \in Things, match_ref \in MatchRefValues, flt \in 0..1 :
             OffsetsCall(thg, match_ref, flt)
    \/ /\ phase = "exec"
       /\ \E match_ref \in MatchRefValues, rid \in Things, doc_id \in DocIdArgs,
             flt \in 0..2 : ScoreCall(match_ref, rid, doc_id, flt)

SpecScore == InitMatch /\ [][NextScore]_vars

\* no full-text entry is registered for the match reference of the last call
NoEntryForMatchRef ==
    \/ ret.match_ref.kind # "Number"
    \/ (ret.match_ref.n % Pow2(MatchRefBits)) \notin DOMAIN exec.mr_entries

\* C14 as stated: a highlight() or score() call with a match reference for
\* which no full-text entry is registered fails with NoIndexFoundForMatch.
C14_Original ==
    (ret.op \in {"highlight", "score"} /\ NoEntryForMatchRef) =>
        (IsErr(ret.val) /\ ret.val.kind = "NoIndexFoundForMatch")

\* C14, amended: a highlight(), offsets() or score() call with a match
\* reference for which no full-text entry is registered returns None and no
\* error, and no call of them ever fails with NoIndexFoundForMatch.
C14_NoEntryYieldsNone ==
    ret.op \in {"highlight", "offsets", "score"} =>
        /\ NoEntryForMatchRef => ret.val = Ok(ValueNone)
        /\ ~(IsErr(ret.val) /\ ret.val.kind = "NoIndexFoundForMatch")

\* highlight() got None for an unregistered match reference while another
\* match reference has an entry
C14_Witness ==
    /\ ret.op = "highlight"
    /\ NoEntryForMatchRef
    /\ exec.mr_entries # EmptyMap
    /\ ret.val = Ok(ValueNone)

\* the DocId score() works with: the supplied one, or else the one of rid
AvailableDocId == IF IsSome(ret.doc_id) THEN ret.doc_id ELSE MapGet(store.doc_ids, ret.rid)
\* the entry registered for the match reference of the last call
RetMrEntry == exec.mr_entries[ret.match_ref.n % Pow2(MatchRefBits)]
\* the entry has a scorer and the scorer yields a score for the DocId
ScoreAvailable ==
    /\ ~NoEntryForMatchRef
    /\ IsSome(RetMrEntry.scorer)
    /\ IsSome(AvailableDocId)
    /\ IsSome(ScorerScore(Unwrap(RetMrEntry.scorer), Unwrap(AvailableDocId)))

\* C15: a score() call that returns a value returns a number exactly when the
\* match reference has a registered entry with a scorer, a DocId is available
\* (the supplied one, or else the one looked up for rid) and the scorer yields
\* a score for it, and null in every other case; when a DocId is supplied no
\* DocId lookup is performed; its only failures are storage errors.
C15_ScoreOrNull ==
    ret.op = "score" =>
        /\ IsOk(ret.val) =>
              IF ScoreAvailable
              THEN ret.val.val = Number(Unwrap(ScorerScore(Unwrap(RetMrEntry.scorer),
                                                           Unwrap(AvailableDocId))))
              ELSE ret.val.val = ValueNone
        /\ IsErr(ret.val) => ret.val.kind = "StorageError"
        /\ IsSome(ret.doc_id) => ret.lookups = 0

\* score() returned a number for a supplied DocId that is not the DocId of rid
C15_Witness ==
    /\ ret.op = "score"
    /\ IsSome(ret.doc_id)
    /\ MapGet(store.doc_ids, ret.rid) # ret.doc_id
    /\ IsOk(ret.val)
    /\ ret.val.val.kind = "Number"

(***************************************************************************)
(* knn and build_knn_set: one kNN expression, a scan that visits each row  *)
(* at most once in any order, and calls in the Iterate stage.              *)
(***************************************************************************)
KnnRows == {Thing("person", i) : i \in 1..MaxRows}
\* the indexed field of a row: rows 1 and 3 are equally far from Vector, row 4
\* has another dimension, row 5 is no vector
RowDoc(thg) ==
    IF thg.id = 1 THEN Array(<<2, 0, 0>>)
    ELSE IF thg.id = 2 THEN Array(<<1, 0, 0>>)
    ELSE IF thg.id = 3 THEN Array(<<0, 2, 0>>)
    ELSE IF thg.id = 4 THEN Array(<<1, 1>>)
    ELSE IF thg.id = 5 THEN Strand("far")
    ELSE Array(<<0, 0, 1>>)
KnnScanInputs ==
    { [exp \in {"e1"} |-> [k |-> k, id |-> "pt", val |-> Vector, dist |-> "Manhattan"]] :
        k \in 1..MaxK }
NoOptions == [options |-> <<>>, definitions |-> Definitions]
\* the top-k sets an Iterate stage carries: table -> expression -> Things
IterateSets ==
    {NoneV, Some(EmptyMap)}
    \cup {Some([tb \in {t} |-> [x \in {"e1"} |-> S]]) :
            t \in {"person", "book"},
            S \in {{Thing("person", 1)}, {Thing("person", 1), Thing("person", 2)}}}
\* the scan has not added the row for the expression
NotYetAdded(exp, thg) ==
    ~\E i \in 1..Len(knn_log) : knn_log[i].exp = exp /\ knn_log[i].thg = thg

NextKnn ==
    \/ /\ phase = "init"
       /\ \E knns \in KnnScanInputs : New(Table, NoOptions, knns, 0)
    \/ From
    \/ /\ phase = "exec"
       /\ \E thg \in KnnRows, exp \in Exprs, stage \in {NoneV, StageCollect} :
             NotYetAdded(exp, thg) /\ KnnCall(stage, thg, RowDoc(thg), exp)
    \/ /\ phase = "exec"
       /\ \E thg \in KnnRows, exp \in Exprs, e \in IterateSets :
             KnnCall(StageIterate(e), thg, RowDoc(thg), exp)
    \/ BuildKnnSet

SpecKnn == Init /\ [][NextKnn]_vars

\* knn() was last called outside the Iterate stage for an expression with a
\* kNN entry
CollectOnEntry ==
    /\ ret.op = "knn"
    /\ ~IsIterate(ret.stage)
    /\ ret.exp \in DOMAIN exec.knn_entries
\* the row's field is a vector of the dimension of the target
RowComputable(thg) == RowDoc(thg).kind = "Array" /\ Len(RowDoc(thg).v) = Len(Vector)
\* the distance of a computable row to the target
RowDistance(thg) == SumAbsDiff(RowDoc(thg).v, Vector, 1)

\* C16 as stated: in the build-set stage every knn() call for an expression
\* with a kNN entry inserts (distance, thg) into the expression's list and
\* returns true.
C16_Original ==
    CollectOnEntry =>
        /\ ret.val = Ok(TRUE)
        /\ ret.add = Some(RowDistance(ret.thg))

\* C16, amended: in the build-set stage a knn() call for an expression with a
\* kNN entry, when the row's field is a vector of the target's dimension,
\* hands (distance(thg, target), thg) to the expression's KnnPriorityList and
\* returns true; when computing the field vector or the distance fails it
\* returns that error and adds nothing; it never returns false.
C16_CollectAddsOrFails ==
    CollectOnEntry =>
        /\ IF RowComputable(ret.thg)
           THEN /\ ret.val = Ok(TRUE)
                /\ ret.add = Some(RowDistance(ret.thg))
                /\ knn_log # <<>>
                /\ knn_log[Len(knn_log)] = [exp |-> ret.exp,
                                            dist |-> RowDistance(ret.thg),
                                            thg |-> ret.thg]
           ELSE /\ IsErr(ret.val)
                /\ ret.add = NoneV
                /\ NotYetAdded(ret.exp, ret.thg)
        /\ ret.val # Ok(FALSE)

\* a knn() call of the build-set stage added a row after another one
C16_Witness ==
    /\ CollectOnEntry
    /\ ret.val = Ok(TRUE)
    /\ Len(knn_log) = 2
    /\ knn_log[2].thg = ret.thg

\* C17: in the Iterate stage knn(thg, expr) returns true iff thg is a member
\* of the top-k set the stage carries for thg's table and expr, and false
\* otherwise (also when no set exists for the table or the expression); it
\* adds nothing.
C17_IterateIsMembership ==
    (ret.op = "knn" /\ IsSome(ret.stage) /\ Unwrap(ret.stage).kind = "Iterate") =>
        LET e == Unwrap(ret.stage).e IN
        /\ ret.val = Ok(/\ e # NoneV
                        /\ ret.thg.tb \in DOMAIN Unwrap(e)
                        /\ ret.exp \in DOMAIN Unwrap(e)[ret.thg.tb]
                        /\ ret.thg \in Unwrap(e)[ret.thg.tb][ret.exp])
        /\ ret.add = NoneV

\* an Iterate-stage call answered true for a member of the set
C17_Witness ==
    /\ ret.op = "knn"
    /\ IsSome(ret.stage)
    /\ Unwrap(ret.stage).kind = "Iterate"
    /\ ret.val = Ok(TRUE)

\* the add calls made for an expression, in order
AddsOf(exp) == SelectSeq(knn_log, LAMBDA a : a.exp = exp)
\* the entries of adds that come before the entry numbered i in (distance,
\* insertion order)
Rank(adds, i) ==
    Cardinality({j \in 1..Len(adds) :
                    \/ adds[j].dist < adds[i].dist
                    \/ adds[j].dist = adds[i].dist /\ j < i})
ListItems(exp) == exec.knn_entries[exp].p.items

\* C18: after any sequence of add calls a KnnPriorityList created with bound
\* k holds at most k entries, all of them added ones, as many as were added
\* up to k, and none of the added entries it does not hold is nearer than one
\* it holds.
C18_ListHoldsKSmallest ==
    phase = "exec" =>
        \A exp \in DOMAIN exec.knn_entries :
            LET items == ListItems(exp)
                adds == AddsOf(exp)
                k == exec.knn_entries[exp].p.k
                held == {items[i].thg : i \in 1..Len(items)}
            IN  /\ Len(items) <= k
                /\ Len(items) = Min(k, Len(adds))
                /\ \A i \in 1..Len(items) :
                      \E j \in 1..Len(adds) :
                          adds[j].thg = items[i].thg /\ adds[j].dist = items[i].dist
                /\ \A i \in 1..Len(items), j \in 1..Len(adds) :
                      adds[j].thg \notin held => items[i].dist <= adds[j].dist

\* a full list evicted an entry: more entries were added than it holds
C18_Witness ==
    /\ phase = "exec"
    /\ \E exp \in DOMAIN exec.knn_entries :
          /\ Len(AddsOf(exp)) > exec.knn_entries[exp].p.k
          /\ Len(ListItems(exp)) = exec.knn_entries[exp].p.k
          /\ exec.knn_entries[exp].p.k = MaxK

\* C19: build_knn_set returns for each kNN expression the k Things with the
\* smallest distances among the rows the scan added (all of them when fewer
\* than k), a tie on distance resolved for the Thing added first, listed in
\* ascending distance.
C19_BuildKnnSetIsTopK ==
    ret.op = "build_knn_set" =>
        /\ DOMAIN ret.val = DOMAIN exec.knn_entries
        /\ \A exp \in DOMAIN ret.val :
              LET adds == AddsOf(exp)
                  k == exec.knn_entries[exp].p.k
              IN  /\ Len(ret.val[exp]) = Min(k, Len(adds))
                  /\ \A j \in 1..Len(adds) :
                        Rank(adds, j) < k => ret.val[exp][Rank(adds, j) + 1] = adds[j].thg

\* build_knn_set left out the later of two rows at the same distance
C19_Witness ==
    /\ ret.op = "build_knn_set"
    /\ \E exp \in DOMAIN ret.val :
          LET adds == AddsOf(exp) IN
          /\ Len(ret.val[exp]) = 2
          /\ \E i, j \in 1..Len(adds) :
                /\ i < j
                /\ adds[i].dist = adds[j].dist
                /\ ret.val[exp][2] = adds[i].thg

(***************************************************************************)
(* Row tasks running knn() concurrently in the build-set stage, then       *)
(* build_knn_set once all of them have returned.                           *)
(***************************************************************************)
NextKnnTasks ==
    \/ /\ phase = "init"
       /\ \E knns \in KnnScanInputs : New(Table, NoOptions, knns, 0)
    \/ From
    \/ /\ phase = "exec"
       /\ \E thg \in KnnRows, exp \in Exprs : KnnCompute(thg, RowDoc(thg), exp)
    \/ /\ phase = "exec"
       /\ \E thg \in KnnRows : KnnAdd(thg)
    \/ AllTasksDone /\ tasks # NoTasks /\ BuildKnnSet

SpecKnnTasks == Init /\ [][NextKnnTasks]_vars

\* the row tasks of an expression that computed a distance
Adders(exp) ==
    {thg \in DOMAIN tasks : tasks[thg].exp = exp /\ IsSome(tasks[thg].add)}
\* the list the tasks of exp produce when they run one after the other in the
\* order of the ids of their rows
RECURSIVE AddInIdOrder(_, _, _)
AddInIdOrder(p, exp, i) ==
    IF i > MaxRows + 1 THEN p
    ELSE AddInIdOrder(IF Thing("person", i) \in Adders(exp)
                      THEN KnnPriorityListAdd(p, Unwrap(tasks[Thing("person", i)].add),
                                              Thing("person", i))
                      ELSE p,
                      exp, i + 1)
EmptyListOf(exp) == [exec.knn_entries[exp].p EXCEPT !.items = <<>>]
\* every add a task made has reached the list: the tasks that added are the
\* entries of the add log, once each
NoAddLost ==
    \A exp \in DOMAIN exec.knn_entries :
        LET adds == AddsOf(exp)
            done == {thg \in Adders(exp) : tasks[thg].pc = "done"}
        IN  /\ Len(adds) = Cardinality(done)
            /\ \A thg \in done :
                  \E j \in 1..Len(adds) :
                      adds[j].thg = thg /\ adds[j].dist = Unwrap(tasks[thg].add)
            /\ Len(ListItems(exp)) = Min(exec.knn_entries[exp].p.k, Len(adds))
\* two added entries at one distance, one in the first k and one not
BoundaryTie(exp) ==
    LET adds == AddsOf(exp)
        k == exec.knn_entries[exp].p.k
    IN  \E i, j \in 1..Len(adds) :
            /\ adds[i].dist = adds[j].dist
            /\ Rank(adds, i) < k
            /\ Rank(adds, j) >= k

\* C20 as stated: with concurrent row tasks no add is lost, and the top-k set
\* build_knn_set produces is the one the same rows produce when their tasks
\* run one after the other in the order of their ids: it depends on the set
\* of visited Things only.
C20_Original ==
    /\ (phase = "exec" /\ DOMAIN tasks # {}) => NoAddLost
    /\ (ret.op = "build_knn_set" /\ AllTasksDone) =>
          \A exp \in DOMAIN ret.val :
              SeqRange(ret.val[exp])
                  = SeqRange(KnnPriorityListBuild(AddInIdOrder(EmptyListOf(exp), exp, 1)))

\* C20, amended: with concurrent row tasks no add is lost, and the top-k set
\* build_knn_set produces holds the first k of the added Things in the order
\* of (distance, arrival of the add at the list); it is the set any other
\* order of the same tasks produces when no two added Things at the same
\* distance fall on either side of the k-th place, and with such a tie the
\* Thing whose add arrived first is the one kept.
C20_TopKUpToBoundaryTies ==
    /\ (phase = "exec" /\ DOMAIN tasks # {}) => NoAddLost
    /\ (ret.op = "build_knn_set" /\ AllTasksDone) =>
          \A exp \in DOMAIN ret.val :
              LET adds == AddsOf(exp)
                  k == exec.knn_entries[exp].p.k
              IN  /\ SeqRange(ret.val[exp])
                        = {adds[j].thg : j \in {i \in 1..Len(adds) : Rank(adds, i) < k}}
                  /\ ~BoundaryTie(exp) =>
                        SeqRange(ret.val[exp])
                            = SeqRange(KnnPriorityListBuild(
                                           AddInIdOrder(EmptyListOf(exp), exp, 1)))

\* tasks whose adds arrived against the order of their ids, more of them
\* than k, and build_knn_set after all of them returned
C20_Witness ==
    /\ ret.op = "build_knn_set"
    /\ AllTasksDone
    /\ \E exp \in DOMAIN ret.val :
          LET adds == AddsOf(exp) IN
          /\ Len(adds) > exec.knn_entries[exp].p.k
          /\ ~BoundaryTie(exp)
          /\ \E i, j \in 1..Len(adds) : i < j /\ adds[i].thg.id > adds[j].thg.id

(***************************************************************************)
(* The two passes of a kNN query under the plan driver.                    *)
(***************************************************************************)
NextKnnStages ==
    \/ /\ phase = "init"
       /\ \E knns \in KnnScanInputs : New(Table, NoOptions, knns, 0)
    \/ From
    \/ StartCollect
    \/ /\ phase = "exec"
       /\ iter_stage = StageCollect
       /\ \E thg \in KnnRows, exp \in Exprs : KnnCompute(thg, RowDoc(thg), exp)
    \/ /\ phase = "exec"
       /\ \E thg \in KnnRows : KnnAdd(thg)
    \/ NextIterationStage
    \/ /\ phase = "exec"
       /\ iter_stage \notin {NoneV, StageCollect}
       /\ \E thg \in KnnRows, exp \in Exprs : KnnCall(iter_stage, thg, RowDoc(thg), exp)

SpecKnnStages == Init /\ [][NextKnnStages]_vars

\* build_knn_set has run: the driver is in the Iterate stage
SetsBuilt == iter_stage \notin {NoneV, StageCollect}

TxnPlanOptions ==
    { <<"e1", IndexOption(0, "Left", Matches(<<"quick">>, Some(1)))>>,
      <<"e2", IndexOption(1, "Left", Matches(<<"quick">>, NoneV))>>,
      <<"e1", IndexOption(2, "Left", Knn(Vector, 2))>>,
      <<"e2", IndexOption(2, "Left", Knn(Vector, 1))>> }
TxnIndexesMaps ==
    [options : SeqsUpTo(TxnPlanOptions, MaxOptions), definitions : {Definitions}]

NextTxn ==
    \/ /\ phase = "init"
       /\ \E im \in TxnIndexesMaps :
             \E flt \in BuildFaults(store, im) : New(Table, im, EmptyMap, flt)
    \/ From
    \/ /\ phase = "exec"
       /\ \E thg \in Things, exp \in Exprs, l \in Texts, flt \in 0..1 :
             MatchesCall(thg, exp, l, l, flt)
    \/ /\ phase = "exec"
       /\ \E thg \in Things, match_ref \in {Number(1), Number(2)}, flt \in 0..1 :
             HighlightCall(thg, match_ref, flt)
    \/ /\ phase = "exec"
       /\ \E thg \in Things, match_ref \in {Number(1), Number(2)}, flt \in 0..1 :
             OffsetsCall(thg, match_ref, flt)
    \/ /\ phase = "exec"
       /\ \E match_ref \in {Number(1), Number(2)}, rid \in Things, doc_id \in DocIdArgs,
             flt \in 0..2 : ScoreCall(match_ref, rid, doc_id, flt)

SpecTxn == InitMatch /\ [][NextTxn]_vars

\* the mutex is held when the event numbered i happens
HeldAt(ev, i) ==
    Cardinality({j \in 1..(i - 1) : ev[j] = "lock"})
        > Cardinality({j \in 1..(i - 1) : ev[j] = "unlock"})
\* the mutex is never acquired while held, released only when held, and not
\* held when the operation returns
WellBracketed(ev) ==
    /\ \A i \in 1..Len(ev) :
          /\ ev[i] = "lock" => ~HeldAt(ev, i)
          /\ ev[i] = "unlock" => HeldAt(ev, i)
    /\ ~HeldAt(ev, Len(ev) + 1)
\* what happens while the mutex is held, per acquisition
Sections(ev) ==
    { SubSeq(ev, i + 1,
             (CHOOSE j \in (i + 1)..Len(ev) :
                 ev[j] = "unlock" /\ \A m \in (i + 1)..(j - 1) : ev[m] # "unlock") - 1) :
        i \in {n \in 1..Len(ev) : ev[n] = "lock"} }
CountOf(sec, e) == Cardinality({i \in 1..Len(sec) : sec[i] = e})

\* C22 as stated: in every executor operation the Transaction mutex is held
\* for a single storage call only, never while another lock is awaited and
\* never across a second storage call.
C22_Original ==
    /\ WellBracketed(txn_log.events)
    /\ \A sec \in Sections(txn_log.events) :
          /\ CountOf(sec, "storage") <= 1
          /\ CountOf(sec, "rwlock") = 0

\* C22, amended: in every executor operation the Transaction mutex is never
\* acquired while held and is released before the operation returns; a facade
\* operation acquires it at most once.  It is held for a single storage call
\* in highlight, in offsets and in FtEntry::new; in matches (doc-id path) it is
\* held while the read lock of the DocIds is awaited and for the one lookup;
\* in score it is held from before the DocId lookup, the wait for the read
\* lock of the DocIds included, until after the scorer call; in the build of
\* an M-Tree option it is held across MTreeIndex::new and the knn_search.
C22_HeldPerOperation ==
    /\ WellBracketed(txn_log.events)
    /\ txn_log.op # "new" => Cardinality(Sections(txn_log.events)) <= 1
    /\ \A sec \in Sections(txn_log.events) :
          /\ txn_log.op \in {"highlight", "offsets"} => sec = <<"storage">>
          /\ txn_log.op = "matches" => sec = <<"rwlock", "storage">>
          /\ txn_log.op = "score" =>
                sec \in { <<"storage">>, <<"rwlock", "storage">>,
                          <<"rwlock", "storage", "storage">> }
          /\ txn_log.op = "new" => sec \in { <<"storage">>, <<"storage", "storage">> }
    /\ (txn_log.op = "score" /\ ret.op = "score") =>
          CountOf(txn_log.events, "lock") = (IF txn_log.events = <<>> THEN 0 ELSE 1)
    /\ (txn_log.op = "score" /\ ret.op = "score" /\ ret.lookups = 1) =>
          SubSeq(txn_log.events, 1, 3) = <<"lock", "rwlock", "storage">>

\* score looked the DocId up and scored it under one acquisition
C22_Witness ==
    /\ txn_log.op = "score"
    /\ ret.op = "score"
    /\ IsOk(ret.val)
    /\ ret.val.val.kind = "Number"
    /\ txn_log.events = <<"lock", "rwlock", "storage", "storage", "unlock">>

(***************************************************************************)
(* explain and the other pure operations of the facade, on any registered  *)
(* entry.                                                                  *)
(***************************************************************************)
ExplainEntries ==
    {Single(exp, IndexOption(ir, "Left", op)) :
        exp \in {"e1"}, ir \in {3, 4, 5},
        op \in {Equality("a"), Union(<<"a", "c">>), Matches(<<"quick">>, NoneV)}}
    \cup {RangeEntry({"e1"}, ir, ft[1], ft[2]) :
            ir \in {3, 4, 5},
            ft \in FromTos \cup { <<RangeValue(30, TRUE), RangeValue(10, TRUE)>> }}

NextExplain ==
    \/ /\ phase = "init"
       /\ \E im \in ItIndexesMaps : New(Table, im, EmptyMap, 0)
    \/ /\ phase = "built"
       /\ Len(exec.it_entries) < MaxIterators + 1
       /\ \E e \in ExplainEntries : AddIterator(e)
    \/ From
    \/ /\ phase = "exec"
       /\ \E itr \in 0..(MaxIterators + 1) : ExplainCall(itr)
    \/ /\ phase = "exec"
       /\ \E itr \in 0..(MaxIterators + 1), exp \in Exprs : IsIteratorExpressionCall(itr, exp)
    \/ HasKnnCall
    \/ \E tb \in {"person", "book"} : IsTableCall(tb)

SpecExplain == Init /\ [][NextExplain]_vars

\* explain was last called with the IteratorRef of a registered entry
ExplainedEntry == exec.it_entries[ret.it_ref + 1]
ExplainOnEntry == ret.op = "explain" /\ ret.it_ref < Len(exec.it_entries)
\* the IndexRef of an entry
EntryIndexRef(ie) == IF ie.tag = "Single" THEN ie.io.ix_ref ELSE ie.ir

\* C23 as stated: for every registered IteratorRef explain(ref) has an
\* `index` field with the name of the entry's index, and for a Range entry
\* `from` and `to` equal to the bounds it was registered with.
C23_Original ==
    ExplainOnEntry =>
        /\ ret.val.kind = "Object"
        /\ "index" \in DOMAIN ret.val.fields
        /\ ExplainedEntry.tag = "Range" =>
              /\ ret.val.fields["from"] = ValueFromRangeValue(ExplainedEntry.from)
              /\ ret.val.fields["to"] = ValueFromRangeValue(ExplainedEntry.to)

\* C23, amended: for every registered IteratorRef explain(ref) is an object;
\* when the entry's IndexRef names an index definition it has an `index`
\* field holding that definition's name, and when it names none it has no
\* `index` field; for a Range entry it has `from` and `to` equal to the
\* bounds the entry was registered with; every call returns this same value.
C23_ExplainOfEntry ==
    ExplainOnEntry =>
        LET ie == ExplainedEntry
            d == VecGet(exec.index_definitions, EntryIndexRef(ie))
        IN  /\ ret.val.kind = "Object"
            /\ IF IsSome(d)
               THEN /\ "index" \in DOMAIN ret.val.fields
                    /\ ret.val.fields["index"] = Unwrap(d).name
               ELSE "index" \notin DOMAIN ret.val.fields
            /\ ie.tag = "Range" =>
                  /\ DOMAIN ret.val.fields \ {"index"} = {"from", "to"}
                  /\ ret.val.fields["from"] = [value |-> ie.from.value,
                                               inclusive |-> ie.from.inclusive]
                  /\ ret.val.fields["to"] = [value |-> ie.to.value,
                                             inclusive |-> ie.to.inclusive]

\* explain of the second registered entry, a Range entry on a defined index
C23_Witness ==
    /\ ExplainOnEntry
    /\ ret.it_ref = 1
    /\ ExplainedEntry.tag = "Range"
    /\ "index" \in DOMAIN ret.val.fields
    /\ ret.val.fields["index"] = "by_name"
    /\ ret.val.fields["from"].value = 30

(***************************************************************************)
(* Draining iterators: any contents of the two indexes of the table, one   *)
(* registered entry, one iterator held and drained in batches of any size. *)
(***************************************************************************)
\* the indexed values (0: the record has none)
IndexValues == {1, 2}
\* the two indexes of a table where record id has the value rows[id]: the
\* unique index holds one record per value
IndexesOf(rows) ==
    LET all == {Key(rows[id], id) : id \in {x \in DOMAIN rows : rows[x] # 0}} IN
    [n \in {"by_name", "by_id"} |->
        IF n = "by_name" THEN all
        ELSE {k \in all : \A j \in all : j.value = k.value => k.id <= j.id}]
DrainStores ==
    { [postings |-> [w \in {"quick", "brown"} |-> IF w = "quick" THEN {1, 2} ELSE {2}],
       doc_ids |-> [t \in Things |-> IF t = "person:1" THEN 1 ELSE 2],
       mtree |-> <<3, 1, 2>>,
       index |-> IndexesOf(rows)] : rows \in [1..MaxRecords -> IndexValues \cup {0}] }
DrainIndexesMap ==
    [options |-> << <<"e1", IndexOption(0, "Left", Matches(<<"quick", "brown">>, Some(1)))>>,
                    <<"e2", IndexOption(2, "Left", Knn(Vector, 2))>> >>,
     definitions |-> Definitions]
\* the bounds of a range: any two values, inclusive or not
DrainBounds == {RangeValue(v, i) : v \in IndexValues, i \in BOOLEAN}
DrainOps ==
    {Equality(v) : v \in IndexValues}
    \cup {Union(<<1, 3, 2, 2>>), Union(<<3>>),
          Join(<< IndexOption(3, "Left", Equality(2)) >>),
          Join(<< IndexOption(4, "Left", Union(<<2, 1>>)),
                  IndexOption(3, "Left", Equality(1)) >>)}
DrainEntries ==
    {Single("e1", IndexOption(ir, "Left", op)) : ir \in {3, 4}, op \in DrainOps}
    \cup {RangeEntry({"e1"}, ir, from, to) : ir \in {3, 4}, from \in DrainBounds, to \in DrainBounds}
    \cup {Single("e1", IndexOption(0, "Left", Matches(<<"quick", "brown">>, Some(1)))),
          Single("e2", IndexOption(2, "Left", Knn(Vector, 2)))}

InitDrain == InitIn(DrainStores)

NextDrain ==
    \/ /\ phase = "init"
       /\ New(Table, DrainIndexesMap, EmptyMap, 0)
    \/ /\ phase = "built"
       /\ exec.it_entries = <<>>
       /\ \E e \in DrainEntries : AddIterator(e)
    \/ From
    \/ /\ phase = "exec"
       /\ its = <<>>
       /\ NewIterator(0, 0)
    \/ OpenIterator(1)
    \/ /\ phase = "exec"
       /\ \E n \in 1..MaxBatch : NextBatchCall(1, n)

SpecDrain == InitDrain /\ [][NextDrain]_vars

\* the entry an iterator was made from, and the index it names
ItEntry(h) == exec.it_entries[h.it_ref + 1]
ItIndex(h) ==
    exec.index_definitions[(IF ItEntry(h).tag = "Single" THEN ItEntry(h).io.ix_ref
                            ELSE ItEntry(h).ir) + 1]
\* the ids of the records of the index of h whose indexed field is in vs
RecordsWith(h, vs) == {k.id : k \in {j \in store.index[ItIndex(h).name] : j.value \in vs}}
\* the record ids h yielded so far, in order
OutIds(h) == [i \in 1..Len(h.out) |-> h.out[i].thg.id]
NoRepeat(q) == \A i, j \in 1..Len(q) : i # j => q[i] # q[j]
\* h is a drained iterator of an entry with an Equality operator
DrainedEqual(h) ==
    /\ h.ended
    /\ h.it.variant \in {"IndexEqual", "UniqueEqual"}

\* C24: an IndexEqual or UniqueEqual iterator drained to the end has yielded
\* every record of the table of its index whose indexed field equals the
\* value of its entry, each exactly once, and no other record.
C24_EqualYieldsExactlyTheMatches ==
    \A i \in 1..Len(its) :
        DrainedEqual(its[i]) =>
            /\ NoRepeat(OutIds(its[i]))
            /\ {OutIds(its[i])[j] : j \in 1..Len(its[i].out)}
                   = RecordsWith(its[i], {ItEntry(its[i]).io.op.value})
            /\ \A j \in 1..Len(its[i].out) : its[i].out[j].thg.tb = ItIndex(its[i]).what
\* an IndexEqual iterator was drained in several batches where other records
\* hold another value
C24_Witness ==
    /\ Len(its) = 1
    /\ DrainedEqual(its[1])
    /\ its[1].it.variant = "IndexEqual"
    /\ Len(its[1].out) = 3
    /\ store.index["by_id"] # {}
    /\ ret.op = "next_batch" /\ ret.n = 1
\* a UniqueEqual iterator was drained where several records hold its value
C24_WitnessUnique ==
    /\ Len(its) = 1
    /\ DrainedEqual(its[1])
    /\ its[1].it.variant = "UniqueEqual"
    /\ Len(its[1].out) = 1
    /\ Cardinality(store.index["by_name"]) = 3

\* h is a drained iterator of a range entry
DrainedRange(h) ==
    /\ h.ended
    /\ h.it.variant \in {"IndexRange", "UniqueRange"}
\* v lies within the bounds, each honoured by its inclusive flag
Within(v, from, to) ==
    /\ IF from.inclusive THEN from.value <= v ELSE from.value < v
    /\ IF to.inclusive THEN v <= to.value ELSE v < to.value

\* C25: a range iterator drained to the end has yielded exactly once every
\* record whose indexed value lies within the bounds of its entry, each bound
\* honoured by its inclusive flag, and no record outside them; it yields
\* nothing when from is above to.
C25_RangeYieldsExactlyTheInterval ==
    \A i \in 1..Len(its) :
        DrainedRange(its[i]) =>
            LET e == ItEntry(its[i]) IN
            /\ NoRepeat(OutIds(its[i]))
            /\ {OutIds(its[i])[j] : j \in 1..Len(its[i].out)}
                   = RecordsWith(its[i], {v \in IndexValues : Within(v, e.from, e.to)})
            /\ e.from.value > e.to.value => its[i].out = <<>>
\* a range open below and closed above was drained: it yielded the records
\* at its upper bound and left out one at its lower bound
C25_Witness ==
    /\ Len(its) = 1
    /\ DrainedRange(its[1])
    /\ ItEntry(its[1]).from = RangeValue(1, FALSE)
    /\ ItEntry(its[1]).to = RangeValue(2, TRUE)
    /\ Len(its[1].out) = 2
    /\ RecordsWith(its[1], {1}) # {}
\* a range whose lower bound is above its upper bound was drained over an
\* index that holds both values
C25_WitnessEmpty ==
    /\ Len(its) = 1
    /\ DrainedRange(its[1])
    /\ ItEntry(its[1]).from.value > ItEntry(its[1]).to.value
    /\ RecordsWith(its[1], {1}) # {} /\ RecordsWith(its[1], {2}) # {}

\* h is a drained iterator of an entry with a Union operator
DrainedUnion(h) ==
    /\ h.ended
    /\ h.it.variant \in {"IndexUnion", "UniqueUnion"}
\* what an equality iterator on the index of h yields for the value v: the
\* ids of the records holding v, in storage order
EqualYield(h, v) == SortedDocs(RecordsWith(h, {v}))
\* the yields of the equality iterators of vs[i..], one after the other
RECURSIVE ConcatEqual(_, _, _)
ConcatEqual(h, vs, i) ==
    IF i > Len(vs) THEN <<>> ELSE EqualYield(h, vs[i]) \o ConcatEqual(h, vs, i + 1)

\* C26: an IndexUnion or UniqueUnion iterator over the values [v1, ..., vk]
\* drained to the end has yielded the concatenation, in list order, of what
\* the equality iterator of each vi yields, also when a value is repeated
\* or has no hit.
C26_UnionIsConcatenation ==
    \A i \in 1..Len(its) :
        DrainedUnion(its[i]) =>
            OutIds(its[i]) = ConcatEqual(its[i], ItEntry(its[i]).io.op.values, 1)
\* a union whose list repeats a value and holds one without a hit was
\* drained over an index where both other values have records
C26_Witness ==
    /\ Len(its) = 1
    /\ DrainedUnion(its[1])
    /\ its[1].it.variant = "IndexUnion"
    /\ ItEntry(its[1]).io.op.values = <<1, 3, 2, 2>>
    /\ RecordsWith(its[1], {1}) # {}
    /\ RecordsWith(its[1], {2}) # {}
    /\ RecordsWith(its[1], {3}) = {}
    /\ Len(its[1].out) > 3

\* h is a drained iterator of an entry with a Join operator
DrainedJoin(h) ==
    /\ h.ended
    /\ h.it.variant \in {"IndexJoin", "UniqueJoin"}
\* the ids of the records of the index named name that hold v, in storage order
IdsOf(name, v) == SortedDocs({k.id : k \in {j \in store.index[name] : j.value = v}})
\* the hits in the index named name of each value of vs[i..], one value
\* after the other
RECURSIVE ProbeEach(_, _, _)
ProbeEach(name, vs, i) ==
    IF i > Len(vs) THEN <<>> ELSE IdsOf(name, vs[i]) \o ProbeEach(name, vs, i + 1)
\* the ids an option of a Join yields, and those of ios[i..] in declared order
RECURSIVE OptionYield(_)
RECURSIVE InnerOutputs(_, _)
OptionYield(io) ==
    LET name == exec.index_definitions[io.ix_ref + 1].name IN
    IF io.op.kind = "Equality" THEN IdsOf(name, io.op.value)
    ELSE IF io.op.kind = "Union" THEN ProbeEach(name, io.op.values, 1)
    ELSE ProbeEach(name, InnerOutputs(io.op.ios, 1), 1)
InnerOutputs(ios, i) ==
    IF i > Len(ios) THEN <<>> ELSE OptionYield(ios[i]) \o InnerOutputs(ios, i + 1)

\* C27: an IndexJoin or UniqueJoin iterator drained to the end has yielded,
\* for each value its sub-iterators yield, taken depth-first in declared
\* order, the hits of the equality scan of that value on its own index: all
\* hits of one inner value before the next inner value is taken, and one
\* copy of a hit for each inner value that reaches it.
C27_JoinIsProbePerInnerValue ==
    \A i \in 1..Len(its) :
        DrainedJoin(its[i]) =>
            OutIds(its[i]) = ProbeEach(ItIndex(its[i]).name,
                                       InnerOutputs(ItEntry(its[i]).io.op.ios, 1), 1)
\* a join of two sub-iterators was drained: both yielded values, a value was
\* reached twice, and one inner value had no hit
C27_Witness ==
    /\ Len(its) = 1
    /\ DrainedJoin(its[1])
    /\ its[1].it.variant = "IndexJoin"
    /\ Len(ItEntry(its[1]).io.op.ios) = 2
    /\ OptionYield(ItEntry(its[1]).io.op.ios[1]) # <<>>
    /\ OptionYield(ItEntry(its[1]).io.op.ios[2]) # <<>>
    /\ ~NoRepeat(OutIds(its[1]))
    /\ \E j \in 1..Len(InnerOutputs(ItEntry(its[1]).io.op.ios, 1)) :
          IdsOf("by_name", InnerOutputs(ItEntry(its[1]).io.op.ios, 1)[j]) = <<>>

(***************************************************************************)
(* Draining, with the caller calling next_batch until the empty batch.     *)
(***************************************************************************)
SpecDrainFair ==
    InitDrain /\ [][NextDrain]_vars /\ WF_vars(\E n \in 1..MaxBatch : NextBatchCall(1, n))

\* what draining the cursor c one item at a time yields
RECURSIVE DrainByOne(_, _)
DrainByOne(st, c) ==
    LET r == NextBatch(st, c, 1) IN
    IF r.batch = <<>> THEN <<>> ELSE r.batch \o DrainByOne(st, r.c)
IsPrefix(p, q) == Len(p) <= Len(q) /\ p = SubSeq(q, 1, Len(p))
\* the last call was a next_batch
Batched == ret.op = "next_batch"
\* this step is a next_batch call on iterator 1
BatchStep == Len(its) = 1 /\ Len(its') = 1 /\ ret'.op = "next_batch" /\ its' # its

\* the iterator held returned the empty batch to the last call
EndReached ==
    IF Len(its) = 1 THEN its[1].ended /\ Batched /\ ret.batch = <<>> ELSE FALSE

\* C28: a next_batch(txn, n) call returns at most n items; it returns the
\* empty batch only when the iterator is exhausted; every call before that
\* extends the output, which never exceeds the sequence the iterator yields
\* one item at a time, so the batches of any sizes concatenate to that same
\* sequence; an iterator that is drained returns the empty batch after
\* finitely many calls, and every later call returns the empty batch.
C28_BatchesAreBoundedAndEnd ==
    /\ [](Batched => Len(ret.batch) <= ret.n)
    /\ [](\A i \in 1..Len(its) :
            /\ IsPrefix(its[i].out, DrainByOne(store, OpenCursor(its[i].it)))
            /\ its[i].ended => its[i].out = DrainByOne(store, OpenCursor(its[i].it)))
    /\ [](Batched /\ ret.batch = <<>> => its[ret.i].ended)
    /\ [][BatchStep /\ ~its[1].ended =>
              \/ Len(its'[1].out) > Len(its[1].out)
              \/ its'[1].ended /\ its'[1].out = its[1].out]_vars
    /\ [][Len(its) = 1 /\ its[1].ended =>
              its'[1].ended /\ its'[1].out = its[1].out /\ (Batched' => ret'.batch = <<>>)]_vars
    /\ (Len(its) = 1 ~> EndReached)
\* a join was drained in more batches than one, the last call asking for
\* two items and getting none
C28_Witness ==
    /\ Len(its) = 1
    /\ its[1].ended
    /\ its[1].it.variant = "IndexJoin"
    /\ Len(its[1].out) > MaxBatch
    /\ Batched /\ ret.n = MaxBatch /\ ret.batch = <<>>

(***************************************************************************)
(* Several iterators at a time: one or two registered entries, up to       *)
(* MaxOpen iterators made from them and drained in any interleaving, with  *)
(* other operations of the executor in between.                            *)
(***************************************************************************)
\* the store where the first two records of the table are indexed, each
\* with its own value
PairStores == {st \in DrainStores : st.index["by_name"] = {Key(2, 1), Key(1, 2)}}
PairEntries ==
    { Single("e1", IndexOption(3, "Left",
                 Join(<< IndexOption(4, "Left", Union(<<2, 1>>)),
                         IndexOption(3, "Left", Equality(1)) >>))),
      Single("e2", IndexOption(2, "Left", Knn(Vector, 2))) }

InitPair == InitIn(PairStores)

NextPair ==
    \/ /\ phase = "init"
       /\ New(Table, DrainIndexesMap, EmptyMap, 0)
    \/ /\ phase = "built"
       /\ Len(exec.it_entries) < 2
       /\ \E e \in PairEntries : AddIterator(e)
    \/ From
    \/ /\ phase = "exec"
       /\ Len(its) < MaxOpen
       /\ \E it_ref \in {0, 1} : NewIterator(it_ref, 0)
    \/ OpenIterator(MaxOpen)
    \/ /\ phase = "exec"
       /\ \E i \in 1..MaxOpen, n \in 1..MaxBatch : NextBatchCall(i, n)
    \/ /\ phase = "exec"
       /\ its # <<>>
       /\ ExplainCall(0)

SpecPair == InitPair /\ [][NextPair]_vars

\* C29: two iterators made for the same IteratorRef over the same storage
\* yield the same sequence whatever else runs in between: at any time the
\* output of one is a prefix of the output of the other, both drained have
\* the same output, and a step changes an iterator only if it is a
\* next_batch call on that iterator.
C29_SameRefSameSequence ==
    /\ [](\A i, j \in 1..Len(its) :
            its[i].it_ref = its[j].it_ref =>
                /\ IsPrefix(its[i].out, its[j].out) \/ IsPrefix(its[j].out, its[i].out)
                /\ its[i].ended /\ its[j].ended => its[i].out = its[j].out)
    /\ [][\A j \in 1..Len(its) :
              its'[j] # its[j] => ret'.op = "next_batch" /\ ret'.i = j]_vars
\* two iterators of the same Join entry, one of two registered entries, were
\* both drained and yielded several records
C29_Witness ==
    /\ Len(its) = 2
    /\ its[1].it_ref = its[2].it_ref
    /\ its[1].it.variant = "IndexJoin"
    /\ its[1].ended /\ its[2].ended
    /\ Len(its[2].out) > 2
    /\ Len(exec.it_entries) = 2

(***************************************************************************)
(* The whole facade on one executor: a plan with a full-text, an M-Tree    *)
(* and two kNN expressions, one registered entry, and every operation of   *)
(* QueryExecutor in any order.                                             *)
(***************************************************************************)
FacadeKnns ==
    [exp \in Exprs |-> [k |-> 1, id |-> "pt", val |-> Vector, dist |-> "Manhattan"]]
FacadeEntries ==
    { Single("e1", IndexOption(0, "Left", Matches(<<"quick", "brown">>, Some(1)))),
      Single("e2", IndexOption(2, "Left", Knn(Vector, 2))),
      RangeEntry({"e1"}, 3, RangeValue(10, FALSE), RangeValue(30, TRUE)) }
\* a row with a vector, a nearer one, and one whose field is no vector
FacadeRows == {Thing("person", 1), Thing("person", 2), Thing("person", 5)}

NextFacade ==
    \/ /\ phase = "init"
       /\ New(Table, DrainIndexesMap, FacadeKnns, 0)
    \/ /\ phase = "built"
       /\ exec.it_entries = <<>>
       /\ \E e \in FacadeEntries : AddIterator(e)
    \/ From
    \/ /\ phase = "exec"
       /\ \E it_ref \in {0, 1} : NewIterator(it_ref, 0)
    \/ /\ phase = "exec"
       /\ \E exp \in Exprs : MatchesCall("person:1", exp, <<"quick">>, <<"quick">>, 0)
    \/ /\ phase = "exec"
       /\ \E match_ref \in {Number(1), Number(2)} : HighlightCall("person:1", match_ref, 0)
    \/ /\ phase = "exec"
       /\ \E match_ref \in {Number(1), Number(2)} : OffsetsCall("person:1", match_ref, 0)
    \/ /\ phase = "exec"
       /\ \E match_ref \in {Number(1), Number(2)} : ScoreCall(match_ref, "person:1", NoneV, 0)
    \/ /\ phase = "exec"
       /\ \E itr \in {0, 1} : ExplainCall(itr)
    \/ /\ phase = "exec"
       /\ \E exp \in Exprs : IsIteratorExpressionCall(0, exp)
    \/ HasKnnCall
    \/ IsTableCall("person")
    \/ BuildKnnSet
    \/ /\ phase = "exec"
       /\ \E thg \in FacadeRows, exp \in Exprs, stage \in {NoneV, StageCollect} :
             NotYetAdded(exp, thg) /\ KnnCall(stage, thg, RowDoc(thg), exp)
    \/ /\ phase = "exec"
       /\ \E exp \in Exprs, e \in IterateSets :
             KnnCall(StageIterate(e), Thing("person", 1), RowDoc(Thing("person", 1)), exp)

SpecFacade == Init /\ [][NextFacade]_vars

\* this step is a knn() call outside the Iterate stage for the expression exp
CollectStepOn(exp) == ret'.op = "knn" /\ ~IsIterate(ret'.stage) /\ ret'.exp = exp

\* C30: once execution has begun no step changes the iterator entries, the
\* index definitions, the full-text entries, the match-ref entries, the
\* M-Tree entries or the table of the executor, nor which expressions have a
\* kNN entry; a kNN entry changes only in its KnnPriorityList, and only in
\* a knn() call outside the Iterate stage for that expression.
C30_FrozenOnceExecuting ==
    [][phase = "exec" =>
          /\ phase' = "exec"
          /\ exec'.it_entries = exec.it_entries
          /\ exec'.index_definitions = exec.index_definitions
          /\ exec'.ft_map = exec.ft_map
          /\ exec'.exp_entries = exec.exp_entries
          /\ exec'.mr_entries = exec.mr_entries
          /\ exec'.mt_entries = exec.mt_entries
          /\ exec'.table = exec.table
          /\ DOMAIN exec'.knn_entries = DOMAIN exec.knn_entries
          /\ \A exp \in DOMAIN exec.knn_entries :
                /\ [exec'.knn_entries[exp] EXCEPT !.p = exec.knn_entries[exp].p]
                       = exec.knn_entries[exp]
                /\ exec'.knn_entries[exp] # exec.knn_entries[exp] => CollectStepOn(exp)]_vars
\* a knn() call outside the Iterate stage has filled the list of one
\* expression while the other expression's list is still empty, on an
\* executor with full-text, match-ref, M-Tree and iterator entries
C30_Witness ==
    /\ phase = "exec"
    /\ ret.op = "knn" /\ ~IsIterate(ret.stage) /\ ret.exp = "e1"
    /\ exec.knn_entries["e1"].p # exec.knn_entries["e2"].p
    /\ knn_log # <<>>
    /\ exec.it_entries # <<>>
    /\ exec.mr_entries # EmptyMap
    /\ exec.mt_entries # EmptyMap
    /\ exec.exp_entries # EmptyMap

(***************************************************************************)
(* The statement parser on the transaction keywords, as the tests          *)
(* parse_begin, parse_break, parse_cancel, parse_commit and parse_continue *)
(* of syn/parser/test/stmt.rs state it: a statement text is the sequence   *)
(* of its keywords.                                                        *)
(***************************************************************************)
Keywords == {"BEGIN", "BREAK", "CANCEL", "COMMIT", "CONTINUE", "TRANSACTION", "ANALYZE"}
\* Statement::Begin(BeginStatement) and the like
Statement(name) == [kind |-> "Statement", name |-> name]

\* the tokens left once an optional keyword kw is eaten
EatOptional_Required(tokens, kw) ==
    IF tokens # <<>> /\ Head(tokens) = kw THEN Ok(Tail(tokens))
    ELSE Err("Unexpected", NoneV)
EatOptional(tokens, kw) ==
    IF tokens # <<>> /\ Head(tokens) = kw THEN Ok(Tail(tokens)) ELSE Ok(tokens)

\* a statement that is its keyword, followed or not by TRANSACTION
TransactionStatement(name, tokens) ==
    LET rest == EatOptional(tokens, "TRANSACTION") IN
    IF IsErr(rest) THEN rest ELSE Ok([stmt |-> Statement(name), rest |-> rest.val])

\* parse_stmt: the statement at the head of the tokens and the tokens left
ParseStmt(tokens) ==
    IF tokens = <<>> THEN Err("UnexpectedEof", NoneV)
    ELSE IF Head(tokens) = "BEGIN" THEN TransactionStatement("Begin", Tail(tokens))
    ELSE IF Head(tokens) = "CANCEL" THEN TransactionStatement("Cancel", Tail(tokens))
    ELSE IF Head(tokens) = "COMMIT" THEN TransactionStatement("Commit", Tail(tokens))
    ELSE IF Head(tokens) = "BREAK"
    THEN Ok([stmt |-> Statement("Break"), rest |-> Tail(tokens)])
    ELSE IF Head(tokens) = "CONTINUE"
    THEN Ok([stmt |-> Statement("Continue"), rest |-> Tail(tokens)])
    ELSE Err("Unexpected", NoneV)

\* test_parse!(parse_stmt, text)
ParseStmtCall ==
    /\ ret.op = "text"
    /\ ret' = [op |-> "parse_stmt", tokens |-> ret.tokens, res |-> ParseStmt(ret.tokens)]
    /\ UNCHANGED << store, phase, plan, new_result, exec, ft_news, mt_news,
                    knn_searches, it_refs, knn_log, tasks, iter_stage, txn_log, its >>

InitParse ==
    /\ store \in {st \in Stores : Len(st.mtree) > 2}
    /\ phase = "init"
    /\ plan = NoPlan
    /\ new_result = NoErr
    /\ exec = NoExec
    /\ ft_news = <<>>
    /\ mt_news = <<>>
    /\ knn_searches = 0
    /\ it_refs = <<>>
    /\ ret \in {[op |-> "text", tokens |-> q] : q \in SeqsUpTo(Keywords, MaxTokens)}
    /\ knn_log = <<>>
    /\ tasks = NoTasks
    /\ iter_stage = NoneV
    /\ txn_log = NoTxnLog
    /\ its = <<>>

NextParse == ParseStmtCall

SpecParse == InitParse /\ [][NextParse]_vars

\* the statement each transaction keyword stands for
TransactionKeywords == {"BEGIN", "CANCEL", "COMMIT"}
StatementOf(kw) ==
    IF kw = "BEGIN" THEN Statement("Begin")
    ELSE IF kw = "CANCEL" THEN Statement("Cancel") ELSE Statement("Commit")
\* the text parsed was a transaction keyword followed by TRANSACTION
ParsedLongForm ==
    /\ ret.op = "parse_stmt"
    /\ Len(ret.tokens) = 2
    /\ ret.tokens[1] \in TransactionKeywords
    /\ ret.tokens[2] = "TRANSACTION"
\* the text parsed was a transaction keyword alone
ParsedShortForm ==
    /\ ret.op = "parse_stmt"
    /\ Len(ret.tokens) = 1
    /\ ret.tokens[1] \in TransactionKeywords

RefEntries ==
    { Single("e1", IndexOption(3, "Left", Equality("a"))),
      Single("e2", IndexOption(0, "Left", Matches(<<"quick">>, Some(1)))),
      Single("e1", IndexOption(2, "Left", Knn(Vector, 2))),
      RangeEntry({"e1", "e2"}, 4, RangeValue(10, FALSE), RangeValue(30, TRUE)),
      RangeEntry({}, 3, RangeValue(10, TRUE), RangeValue(10, TRUE)) }
\* the IteratorRefs the operations are called with
CalledRefs == 0..(MaxIterators + 2)

NextRefs ==
    \/ /\ phase = "init"
       /\ \E im \in ItIndexesMaps : New(Table, im, EmptyMap, 0)
    \/ /\ phase = "built"
       /\ Len(exec.it_entries) < MaxIterators + 1
       /\ \E e \in RefEntries : AddIterator(e)
    \/ From
    \/ /\ phase = "exec"
       /\ \E it_ref \in CalledRefs, flt \in 0..1 : NewIterator(it_ref, flt)
    \/ /\ phase = "exec"
       /\ \E itr \in CalledRefs : ExplainCall(itr)
    \/ /\ phase = "exec"
       /\ \E ir \in CalledRefs, exp \in Exprs : IsIteratorExpressionCall(ir, exp)

SpecRefs == Init /\ [][NextRefs]_vars

\* the IteratorRefs add_iterator returned
ReturnedRefs == {it_refs[i] : i \in 1..Len(it_refs)}
RefOps == {"new_iterator", "explain", "is_iterator_expression"}
\* the last call was one of the three on an IteratorRef never returned
CalledUnreturned == ret.op \in RefOps /\ ret.it_ref \notin ReturnedRefs

\* C32: for an IteratorRef that add_iterator never returned, new_iterator
\* returns Ok(None), explain returns the none value and
\* is_iterator_expression returns false; none returns an error, and the call
\* changes nothing of the executor, the storage or the iterators handed out.
C32_UnreturnedRefIsNone ==
    /\ [](CalledUnreturned =>
            /\ ret.op = "new_iterator" => ret.val = Ok(NoneV)
            /\ ret.op = "explain" => ret.val = [kind |-> "None"]
            /\ ret.op = "is_iterator_expression" => ret.val = FALSE)
    /\ [][CalledUnreturned' /\ phase = "exec" =>
              UNCHANGED << store, phase, plan, new_result, exec, ft_news, mt_news,
                           knn_searches, it_refs, knn_log, tasks, iter_stage,
                           txn_log, its >>]_vars
\* new_iterator was called with the IteratorRef right after the last one
\* returned, on an executor with registered entries
C32_Witness ==
    /\ ret.op = "new_iterator"
    /\ it_refs # <<>>
    /\ ret.it_ref = Len(it_refs)
    /\ ret.val = Ok(NoneV)

\* is_iterator_expression was the last call
AskedExpression == ret.op = "is_iterator_expression"
\* an entry is registered at the position ir
RegisteredAt(ir) == ir < Len(exec.it_entries)

\* C33: is_iterator_expression(ir, exp) returns true exactly when an entry is
\* registered at ir and it is a Single entry whose expression is exp or a
\* Range entry whose expression set contains exp.
C33_IsIteratorExpression ==
    AskedExpression =>
        (ret.val = TRUE <=>
            /\ RegisteredAt(ret.it_ref)
            /\ \/ /\ exec.it_entries[ret.it_ref + 1].tag = "Single"
                  /\ exec.it_entries[ret.it_ref + 1].exp = ret.exp
               \/ /\ exec.it_entries[ret.it_ref + 1].tag = "Range"
                  /\ ret.exp \in exec.it_entries[ret.it_ref + 1].exps)
\* the call was made on a Range entry for the second expression of its set
C33_Witness ==
    /\ AskedExpression
    /\ RegisteredAt(ret.it_ref)
    /\ exec.it_entries[ret.it_ref + 1].tag = "Range"
    /\ exec.it_entries[ret.it_ref + 1].exps = {"e1", "e2"}
    /\ ret.exp = "e2"
    /\ ret.val = TRUE

\* the last highlight, offsets or score call resolved its match reference to
\* an entry: it returned something else than the none value
ResolvedToEntry ==
    /\ ret.op \in {"highlight", "offsets", "score"}
    /\ \/ IsErr(ret.val)
       \/ IsOk(ret.val) /\ ret.val.val # ValueNone

\* C34: highlight, offsets and score resolve a match-reference value to a
\* registered full-text entry only if the value is a number equal to a
\* declared MatchRef; a value that is no number, or a number that no Matches
\* predicate declared (also one outside 0..255), resolves to no entry.
C34_ResolvesOnlyDeclaredMatchRef ==
    ResolvedToEntry =>
        /\ ret.match_ref.kind = "Number"
        /\ ret.match_ref.n \in DOMAIN exec.mr_entries

(***************************************************************************)
(* Row tasks sharing one executor and one Transaction.  A call is the      *)
(* sequence of the lock steps it makes; a step that acquires waits until   *)
(* the lock can be granted.  "txn" is the Transaction mutex, "doc_ids" and *)
(* "terms" the reader-writer locks of a full-text index (the locks of all  *)
(* indexes are taken as one, which only adds waiting).                     *)
(***************************************************************************)
MaxTasks == 2

Acquire(res) == [act |-> "acquire", res |-> res]
ReadLock(res) == [act |-> "read", res |-> res]
WriteLock(res) == [act |-> "write", res |-> res]
Release(res) == [act |-> "release", res |-> res]
StorageCall == [act |-> "storage", res |-> "txn"]

\* lines 455-457 and 475: txn.lock().await, doc_ids.read().await, get_doc_id
\* on the guard; the read guard goes with the if-let, the mutex guard with
\* the function
MatchesWithDocIdSteps ==
    << Acquire("txn"), ReadLock("doc_ids"), StorageCall, Release("doc_ids"),
       Release("txn") >>

\* Analyzer::extract_indexing_terms, handed the Transaction itself: it takes
\* the guard for its storage call
ExtractIndexingTermsSteps == << Acquire("txn"), StorageCall, Release("txn") >>

MatchesWithValueSteps_HoldsGuard(ft) ==
    IF ~IsMatchable(ft.query_terms_set) THEN <<>>
    ELSE << Acquire("txn"), ReadLock("terms") >> \o ExtractIndexingTermsSteps
            \o << Release("terms"), Release("txn") >>
\* lines 490-500: terms.read().await is held over the analyzer call and
\* dropped when the function returns
MatchesWithValueSteps(ft) ==
    IF ~IsMatchable(ft.query_terms_set) THEN <<>>
    ELSE << ReadLock("terms") >> \o ExtractIndexingTermsSteps \o << Release("terms") >>

\* lines 434-446: the path matches() takes
MatchesSteps(ex, exp) ==
    IF exp \in DOMAIN ex.exp_entries
    THEN LET ft == ex.exp_entries[exp]
             ix_def == GetIndexDef(ex, ft.index_option.ix_ref)
         IN  IF IsSome(ix_def) /\ ex.table = Unwrap(ix_def).what
             THEN MatchesWithDocIdSteps
             ELSE MatchesWithValueSteps(ft)
    ELSE <<>>

\* lines 531-544 and 556-558: highlight and offsets
HighlightSteps(ex, match_ref) ==
    IF IsSome(GetFtEntryAndIndex(ex, match_ref))
    THEN << Acquire("txn"), StorageCall, Release("txn") >>
    ELSE <<>>

\* lines 571-583: score; the read guard of the DocIds is a temporary of the
\* lookup statement
ScoreSteps(st, ex, match_ref, rid, doc_id, flt) ==
    LET e == GetFtEntry(ex, match_ref) IN
    IF IsSome(e) /\ IsSome(Unwrap(e).scorer)
    THEN LET lookup == NeedsLookup(doc_id)
             d == IF lookup THEN GetDocId(st, rid) ELSE doc_id
         IN  << Acquire("txn") >>
             \o (IF lookup
                 THEN << ReadLock("doc_ids"), StorageCall, Release("doc_ids") >>
                 ELSE <<>>)
             \o (IF (lookup /\ flt = 1) \/ ~IsSome(d) THEN <<>> ELSE << StorageCall >>)
             \o << Release("txn") >>
    ELSE <<>>

\* a facade call of a row task: [op, exp, match_ref, rid, doc_id, flt]
FacadeCall(op, exp, match_ref, rid, doc_id, flt) ==
    [op |-> op, exp |-> exp, match_ref |-> match_ref, rid |-> rid,
     doc_id |-> doc_id, flt |-> flt]
CallSteps(st, ex, call) ==
    CASE call.op = "matches" -> MatchesSteps(ex, call.exp)
      [] call.op \in {"highlight", "offsets"} -> HighlightSteps(ex, call.match_ref)
      [] call.op = "score" ->
            ScoreSteps(st, ex, call.match_ref, call.rid, call.doc_id, call.flt)

\* the steps task t has made
StepsDone(t) == SubSeq(tasks[t].prog, 1, tasks[t].at)
Taken(t, res, act) ==
    Cardinality({i \in 1..tasks[t].at :
                    tasks[t].prog[i].act = act /\ tasks[t].prog[i].res = res})
\* task t is inside a facade call
Running(t) == t \in DOMAIN tasks /\ tasks[t].pc = "running"
\* task t holds res (in any mode), holds it exclusively
Holds(t, res) ==
    /\ Running(t)
    /\ Taken(t, res, "acquire") + Taken(t, res, "read") + Taken(t, res, "write")
          > Taken(t, res, "release")
HoldsExclusive(t, res) == Holds(t, res) /\ Taken(t, res, "read") = 0
NextStep(t) == tasks[t].prog[tasks[t].at + 1]
\* the step task t is at can be made: a mutex or a write lock is granted when
\* nobody holds it (the holder itself included), a read lock when no writer does
CanStep(t) ==
    /\ Running(t)
    /\ LET s == NextStep(t) IN
       CASE s.act \in {"acquire", "write"} -> \A u \in DOMAIN tasks : ~Holds(u, s.res)
         [] s.act = "read" -> \A u \in DOMAIN tasks : ~HoldsExclusive(u, s.res)
         [] OTHER -> TRUE

\* a row task enters matches, highlight, offsets or score
StartCall(thg, call) ==
    /\ phase = "exec"
    /\ thg \notin DOMAIN tasks
    /\ LET prog == CallSteps(store, exec, call) IN
       /\ tasks' = MapInsert(tasks, thg,
                       [op |-> call.op, prog |-> prog, at |-> 0,
                        pc |-> IF prog = <<>> THEN "done" ELSE "running"])
       /\ IF prog = <<>>
          THEN ret' = [op |-> "returned", thg |-> thg, call |-> call.op]
          ELSE UNCHANGED ret
    /\ UNCHANGED << store, phase, plan, new_result, exec, ft_news, mt_news,
                    knn_searches, it_refs, knn_log, iter_stage, txn_log, its >>

\* the task makes its next step; after the last one the call returns
LockStep(thg) ==
    /\ phase = "exec"
    /\ CanStep(thg)
    /\ LET last == tasks[thg].at + 1 = Len(tasks[thg].prog) IN
       /\ tasks' = [tasks EXCEPT ![thg].at = @ + 1,
                                 ![thg].pc = IF last THEN "done" ELSE "running"]
       /\ IF last
          THEN ret' = [op |-> "returned", thg |-> thg, call |-> tasks[thg].op]
          ELSE UNCHANGED ret
    /\ UNCHANGED << store, phase, plan, new_result, exec, ft_news, mt_news,
                    knn_searches, it_refs, knn_log, iter_stage, txn_log, its >>

LockRows == {Thing("person", i) : i \in 1..MaxTasks}
LockIndexesMap ==
    [options |-> << <<"e1", IndexOption(0, "Left", Matches(<<"quick">>, Some(1)))>>,
                    <<"e2", IndexOption(1, "Left", Matches(<<"quick">>, NoneV))>> >>,
     definitions |-> Definitions]
LockKnns == [exp \in {"e1"} |-> [k |-> 1, id |-> "pt", val |-> Vector, dist |-> "Manhattan"]]
LockCalls ==
    {FacadeCall("matches", exp, NoneV, "person:1", NoneV, 0) : exp \in Exprs}
    \cup {FacadeCall(op, "e1", Number(1), "person:1", NoneV, 0) :
            op \in {"highlight", "offsets"}}
    \cup {FacadeCall("score", "e1", Number(1), "person:1", doc_id, flt) :
            doc_id \in {NoneV, Some(1)}, flt \in 0..1}

NextLocks ==
    \/ New(Table, LockIndexesMap, LockKnns, 0)
    \/ From
    \/ \E thg \in LockRows, call \in LockCalls : StartCall(thg, call)
    \/ \E thg \in LockRows : LockStep(thg)
    \/ \E thg \in LockRows : KnnCompute(thg, RowDoc(thg), "e1")
    \/ \E thg \in LockRows : KnnAdd(thg)

\* a task that can run is run; the row tasks are a fixed set with one call each
SpecLocksFair ==
    /\ Init
    /\ [][NextLocks]_vars
    /\ \A thg \in LockRows : WF_vars(LockStep(thg)) /\ WF_vars(KnnAdd(thg))

\* the order in which a task may hold two locks: the first is held while the
\* second is awaited
LockOrder == { <<"terms", "txn">>, <<"txn", "doc_ids">> }
Locks == {"txn", "doc_ids", "terms"}
Before(R, a, b) ==
    \/ <<a, b>> \in R
    \/ \E m \in Locks : <<a, m>> \in R /\ <<m, b>> \in R
    \/ \E m, n \in Locks : <<a, m>> \in R /\ <<m, n>> \in R /\ <<n, b>> \in R
Acyclic(R) == \A a \in Locks : ~Before(R, a, a)

\* some task is inside a call and none of them can make a step
Deadlocked ==
    /\ \E t \in DOMAIN tasks : tasks[t].pc # "done"
    /\ \A t \in DOMAIN tasks : tasks[t].pc = "running" /\ ~CanStep(t)
\* a lock is awaited only in LockOrder after the locks the task holds
OrderKept ==
    \A t \in DOMAIN tasks :
        (Running(t) /\ NextStep(t).act \in {"acquire", "read", "write"}) =>
            \A res \in Locks : Holds(t, res) => <<res, NextStep(t).res>> \in LockOrder
\* DocIds and Terms are only read-locked
ReadsOnly ==
    \A t \in DOMAIN tasks :
        Running(t) => \A i \in 1..Len(tasks[t].prog) :
            tasks[t].prog[i].res \in {"doc_ids", "terms"}
                => tasks[t].prog[i].act \in {"read", "release"}
\* a returned call holds nothing
CallReturned(t) == t \in DOMAIN tasks /\ tasks[t].pc = "done"

\* C35: row tasks sharing one executor and one Transaction, each calling
\* matches (either path), highlight, offsets, score or knn in any
\* interleaving, never deadlock: the locks are awaited in an acyclic order
\* (Terms before the Transaction mutex before DocIds), DocIds and Terms are
\* only read-locked, and every call that was entered returns, storage calls
\* returning.
C35_NeverDeadlocks ==
    /\ [](~Deadlocked /\ OrderKept /\ ReadsOnly /\ Acyclic(LockOrder))
    /\ \A thg \in LockRows : (thg \in DOMAIN tasks) ~> CallReturned(thg)

\* one task holds the Transaction mutex on the doc-id path while another,
\* holding the read lock of the Terms, waits for the mutex
C35_Witness ==
    \E t, u \in DOMAIN tasks :
        /\ Running(t) /\ Running(u)
        /\ Holds(t, "txn") /\ Holds(t, "doc_ids")
        /\ Holds(u, "terms")
        /\ NextStep(u) = Acquire("txn")
        /\ ~CanStep(u)

(***************************************************************************)
(* Join entries: nested options that the dispatch serves, that it does not *)
(* serve, and a Join nested in a Join.                                     *)
(***************************************************************************)
JoinPlans ==
    { NoOptions,
      [options |-> << <<"e1", IndexOption(0, "Left", Matches(<<"quick">>, Some(1)))>> >>,
       definitions |-> Definitions] }
NestedInners ==
    { <<>>,
      << IndexOption(3, "Left", Equality("a")), IndexOption(4, "Left", Union(<<"a", "c">>)) >>,
      << IndexOption(0, "Left", Matches(<<"quick">>, NoneV)),
         IndexOption(3, "Left", Knn(Vector, 2)),
         IndexOption(0, "Left", Matches(<<"quick">>, NoneV)) >>,
      << IndexOption(5, "Left", Equality("a")),
         IndexOption(4, "Left", Join(<< IndexOption(3, "Left", Equality("b")),
                                        IndexOption(4, "Left", Knn(Vector, 1)) >>)),
         IndexOption(3, "Left", Equality("c")) >> }
JoinEntries ==
    {Single(exp, IndexOption(ir, "Left", Join(ios))) :
        exp \in Exprs, ir \in {3, 4}, ios \in NestedInners}

NextJoin ==
    \/ /\ phase = "init"
       /\ \E im \in JoinPlans :
             \E flt \in BuildFaults(store, im) : New(Table, im, EmptyMap, flt)
    \/ /\ phase = "built"
       /\ Len(exec.it_entries) < MaxIterators
       /\ \E e \in JoinEntries : AddIterator(e)
    \/ From
    \/ /\ phase = "exec"
       /\ \E it_ref \in 0..MaxIterators, flt \in ItFaults : NewIterator(it_ref, flt)

SpecJoin == Init /\ [][NextJoin]_vars

\* new_iterator was last called on a registered Join entry of a Standard or
\* Unique index
JoinCalled ==
    /\ CalledOnEntry
    /\ RetEntry.tag = "Single"
    /\ DefKind(RetEntry.io.ix_ref) \in {"Idx", "Uniq"}
    /\ RetEntry.io.op.kind = "Join"
\* what the dispatch of a top-level Single entry yields for the option
Dispatched(io) == NewSingleIterator(exec, ret.it_ref, io, 0, 0).res.val
\* the iterators the dispatch yields for the options, in declared order
RECURSIVE Yielded(_)
Yielded(ios) ==
    IF ios = <<>> THEN <<>>
    ELSE (IF IsSome(Dispatched(Head(ios))) THEN <<Unwrap(Dispatched(Head(ios)))>> ELSE <<>>)
         \o Yielded(Tail(ios))

\* C36 as stated: the queue of sub-iterators handed to the join iterator
\* holds exactly one sub-iterator per nested option, in declared order, each
\* built by the dispatch of a top-level Single entry.
C36_Original ==
    (JoinCalled /\ ReturnedSome) =>
        LET ios == RetEntry.io.op.ios IN
        /\ Len(RetIt.arg) = Len(ios)
        /\ \A i \in 1..Len(ios) : Some(RetIt.arg[i]) = Dispatched(ios[i])

\* C36, amended: the queue of sub-iterators handed to the join iterator
\* holds, in declared order, one sub-iterator for each nested option for
\* which the dispatch of a top-level Single entry yields an iterator; an
\* option for which it yields none contributes nothing; construction returns
\* (a join iterator or the error of a nested construction) for every
\* finitely nested Join.
C36_QueueOfYieldedSubIterators ==
    JoinCalled =>
        /\ IsErr(ret.val) \/ ReturnedSome
        /\ ReturnedSome =>
              /\ RetIt.variant = ExpectedVariant(DefKind(RetEntry.io.ix_ref), "Join")
              /\ RetIt.arg = Yielded(RetEntry.io.op.ios)
              /\ Len(RetIt.arg) <= Len(RetEntry.io.op.ios)

\* a Join of three options returned a queue of two: the option on an
\* undefined index was skipped, the nested Join and the Equality were built
C36_Witness ==
    /\ JoinCalled
    /\ ReturnedSome
    /\ Len(RetEntry.io.op.ios) = 3
    /\ Len(RetIt.arg) = 2
    /\ RetIt.arg[1].variant = "UniqueJoin"
    /\ Len(RetIt.arg[1].arg) = 1
    /\ RetIt.arg[2].variant = "IndexEqual"

\* highlight or offsets was last called with a MatchRef the plan declared
DeclaredMatchRefCalled ==
    /\ ret.op \in {"highlight", "offsets"}
    /\ ret.match_ref.kind = "Number"
    /\ ret.match_ref.n \in 0..(Pow2(MatchRefBits) - 1)
    /\ ret.match_ref.n \in DOMAIN exec.mr_entries
\* the call reached FtIndex::highlight or FtIndex::extract_offsets under the
\* Transaction guard
ReachedFtIndex == txn_log.events = <<"lock", "storage", "unlock">>

\* C37: after a successful build every MatchRef of the match-ref map belongs
\* to a full-text entry whose IndexRef has an FtIndex in ft_map, so highlight
\* and offsets called with a declared MatchRef reach the full-text index's
\* routine and return what it returns, not the none value of the fall-through.
C37_DeclaredMatchRefReachesFtIndex ==
    /\ phase \in {"built", "exec"} =>
          \A mr \in DOMAIN exec.mr_entries :
              exec.mr_entries[mr].index_option.ix_ref \in DOMAIN exec.ft_map
    /\ DeclaredMatchRefCalled =>
          /\ ReachedFtIndex
          /\ ret.val # Ok(ValueNone)
          /\ IsSome(GetFtEntryAndIndex(exec, ret.match_ref))

\* two MatchRefs are declared on two full-text indexes and offsets, called
\* with the second, returned the offsets of the index
C37_Witness ==
    /\ DeclaredMatchRefCalled
    /\ ret.op = "offsets"
    /\ ret.match_ref = Number(2)
    /\ Cardinality(DOMAIN exec.mr_entries) = 2
    /\ Cardinality(DOMAIN exec.ft_map) = 2
    /\ ret.val = Ok(Strand("offsets"))
    /\ ReachedFtIndex

(***************************************************************************)
(* Document::store (src/lib/src/doc/store.rs): the storage step of the     *)
(* document processor.                                                     *)
(***************************************************************************)
Unit == <<>>
\* the statements a document is processed for, and the options of the call
StoreStatements == {"Select", "Create", "Update", "Relate", "Delete", "Insert"}
StoreOptions == {[ns |-> ns, db |-> "test"] : ns \in {"a", "b"}}
\* Document: the record id and its current value
Documents ==
    {[id |-> thg, current |-> v] : thg \in Things, v \in {ValueNone, Strand("quick")}}

StoreOutcome_Writes(st, doc, opt, stm) ==
    [res |-> Ok(Unit),
     store |-> IF stm = "Delete"
               THEN [st EXCEPT !.doc_ids = [t \in DOMAIN st.doc_ids \ {doc.id} |-> st.doc_ids[t]]]
               ELSE st]
\* lines 9-17: the body is Ok(()); the outcome is the value returned and the
\* storage the transaction sees afterwards
StoreOutcome(st, doc, opt, stm) == [res |-> Ok(Unit), store |-> st]

\* Document::store(ctx, opt, txn, stm)
DocumentStore(doc, opt, stm) ==
    /\ LET o == StoreOutcome(store, doc, opt, stm) IN
       /\ store' = o.store
       /\ ret' = [op |-> "store", doc |-> doc, opt |-> opt, stm |-> stm, res |-> o.res]
    /\ UNCHANGED << phase, plan, new_result, exec, ft_news, mt_news, knn_searches,
                    it_refs, knn_log, tasks, iter_stage, txn_log, its >>

NextStore == \E doc \in Documents, opt \in StoreOptions, stm \in StoreStatements :
                DocumentStore(doc, opt, stm)

SpecStore == InitMatch /\ [][NextStore]_vars

\* C38: Document::store returns Ok(()) for every document, options,
\* transaction and statement, and changes nothing: the storage the
\* transaction sees and every other part of the state are as before.
C38_StoreIsNoOp ==
    [][ret'.op = "store" =>
          /\ ret'.res = Ok(Unit)
          /\ UNCHANGED << store, phase, plan, new_result, exec, ft_news, mt_news,
                          knn_searches, it_refs, knn_log, tasks, iter_stage,
                          txn_log, its >>]_vars

\* store returned Ok(()) for a Delete of an indexed record, which is still
\* in the storage
C38_Witness ==
    /\ ret.op = "store"
    /\ ret.stm = "Delete"
    /\ ret.res = Ok(Unit)
    /\ ret.doc.id \in DOMAIN store.doc_ids

====
